---- MODULE Spec2Model ----
(***************************************************************************)
(* MRISimulatorModel (src/MRI_core.py): the tissue-volume store, the       *)
(* .mat importer, the dimension queries, the imaging pipeline              *)
(* calculate_image with its cached image / k-space pair, and the two       *)
(* exporters.                                                              *)
(*                                                                         *)
(* Arrays are modelled by what the code inspects or can change: their      *)
(* shape, where their voxels come from (origin), the unit gain applied by  *)
(* the importer, whether NaN-scrubbing ran, and their maximum.  An image   *)
(* is the term of the computation that produced it (slabs read, signal     *)
(* equation and its parameters, resampling, rotation, crop/pad windows),   *)
(* so two images are equal in the model only if the code computed them the *)
(* same way from the same voxels.  A Python exception is the field exc of  *)
(* a stage's result ("" when none was raised).                             *)
(***************************************************************************)
EXTENDS Integers, Sequences, FiniteSets, TLC

\* ------------------------------------------------------------------ bounds
\* Slice indices offered to calculate_image run from -1 to MaxSliceArg.
MaxSliceArg == 3
\* Thickness values offered to calculate_image run from 0 to MaxThick.
MaxThick == 3
\* The window handles at most MaxEvents user events.
MaxEvents == 3
\* The scan history holds at most MaxHistory records.
MaxHistory == 1
\* The scout wheel turns the scan angle within -MaxAngle..MaxAngle degrees.
MaxAngle == 5
\* Arrays handed to crop_or_pad have 0..MaxExtent rows and columns.
MaxExtent == 5
\* Target sizes handed to crop_or_pad run from 1 to MaxTarget.
MaxTarget == 4

\* ------------------------------------------------------- program constants
\* self.base_fov = 240.0
base_fov == 240
\* generate_synthetic_phantom(dim=(128, 128, 20))
PhantomD0 == 128
PhantomD1 == 128
PhantomD2 == 20
\* ventricle T1 of the phantom, its largest T1 value
PhantomMaxT1 == 3000
\* "if np.max(self.t1_vol) < 10" and "*= 1000.0"
SecondsThreshold == 10
MsPerSecond == 1000

\* ------------------------------------------------------------ Python values
None == [kind |-> "None"]

Max2(a, b) == IF a >= b THEN a ELSE b
Min2(a, b) == IF a <= b THEN a ELSE b
Abs(x) == IF x < 0 THEN -x ELSE x

\* Python's x // y for y > 0 (floor division).
FloorDiv(x, y) == x \div y

\* Python's int(x / y) for y > 0: truncation toward zero.
TruncDiv(x, y) == IF x >= 0 THEN x \div y ELSE -((-x) \div y)

\* Python's round(n / d) for n >= 0, d > 0: round half to even.
RoundHalfEven(n, d) ==
    LET q == n \div d
        r == n % d
    IN  IF 2 * r < d THEN q
        ELSE IF 2 * r > d THEN q + 1
        ELSE IF q % 2 = 0 THEN q ELSE q + 1

\* Number of elements of an array of the given shape.
RECURSIVE Size(_)
Size(shape) == IF shape = <<>> THEN 1 ELSE Head(shape) * Size(Tail(shape))

\* Text is a tuple of one-character strings, so that str.lower() and the
\* "in" substring test are computed and not assumed.
UpperToLower ==
    [c \in {"A", "D", "E", "F", "H", "I", "L", "M", "O", "P", "R", "S", "T"} |->
        CASE c = "A" -> "a" [] c = "D" -> "d" [] c = "E" -> "e" [] c = "F" -> "f"
          [] c = "H" -> "h" [] c = "I" -> "i" [] c = "L" -> "l" [] c = "M" -> "m"
          [] c = "O" -> "o" [] c = "P" -> "p" [] c = "R" -> "r" [] c = "S" -> "s"
          [] c = "T" -> "t"]

\* k.lower()
Lower(k) ==
    [i \in 1..Len(k) |-> IF k[i] \in DOMAIN UpperToLower THEN UpperToLower[k[i]] ELSE k[i]]

\* needle in text (case-sensitive substring test)
Contains(text, needle) ==
    \E i \in 0..(Len(text) - Len(needle)) :
        \A j \in 1..Len(needle) : text[i + j] = needle[j]

\* ------------------------------------------------------------------ arrays
\* An ndarray held in self.t1_vol / t2_vol / pd_vol.
Array(shape, origin, max) ==
    [kind |-> "array", shape |-> shape, origin |-> origin, max |-> max,
     gain |-> 1, scrubbed |-> FALSE]

\* np.zeros_like(a)
ZerosLike(a) == Array(a.shape, <<"zeros_like", <<>>>>, 0)

\* np.ones_like(a)
OnesLike(a) == Array(a.shape, <<"ones_like", <<>>>>, 1)

\* np.nan_to_num(a): a fresh array, NaN replaced by 0
NanToNum(a) == [a EXCEPT !.scrubbed = TRUE]

\* a *= 1000.0
TimesThousand(a) == [a EXCEPT !.gain = a.gain * MsPerSecond, !.max = a.max * MsPerSecond]

\* MRIPhysics.generate_synthetic_phantom(): three zero-initialised maps of
\* shape dim, filled slice by slice; all three have the shape dim.
generate_synthetic_phantom ==
    LET dim == <<PhantomD0, PhantomD1, PhantomD2>>
    IN  [t1 |-> Array(dim, <<"phantom", <<"t", "1", "_", "m", "a", "p">>>>, PhantomMaxT1),
         t2 |-> Array(dim, <<"phantom", <<"t", "2", "_", "m", "a", "p">>>>, 2000),
         pd |-> Array(dim, <<"phantom", <<"p", "d", "_", "m", "a", "p">>>>, 1)]

\* -------------------------------------------------------------- containers
\* What scipy.io.loadmat(fname) yields for a path.  readable = FALSE: loadmat
\* raises (no such file, not a MAT file).  flat: the variables in file order
\* (dict order).  vobj: the fields of the struct variable 'VObj' (names =
\* vobj.dtype.names).  An entry of kind "num" converts to float64; one of
\* kind "bad" (char array, cell, struct) makes np.array(.., dtype=float64) and
\* .astype(np.float64) raise.
Num(shape, max) == [kind |-> "num", shape |-> shape, max |-> max]
Bad == [kind |-> "bad", shape |-> <<1>>, max |-> 0]

kT1 == <<"T", "1">>
kT2 == <<"T", "2">>
kRho == <<"R", "h", "o">>
kPD == <<"P", "D">>
kVObj == <<"V", "O", "b", "j">>

NoVObj == [names |-> {}, val |-> <<>>]
VObjOf(f) == [names |-> DOMAIN f, val |-> f]

Container(id, readable, vars) == [id |-> id, readable |-> readable, vars |-> vars]
Var(key, ent) == [key |-> key, ent |-> ent, struct |-> NoVObj]
StructVar(key, f) == [key |-> key, ent |-> Bad, struct |-> VObjOf(f)]

\* 'VObj' in mat
HasVObj(mat) == \E i \in 1..Len(mat.vars) : mat.vars[i].key = kVObj

\* mat['VObj']
GetVObj(mat) ==
    mat.vars[CHOOSE i \in 1..Len(mat.vars) : mat.vars[i].key = kVObj].struct

T1Aliases == {<<"t", "1">>, <<"t", "1", "_", "m", "a", "p">>}
T2Aliases == {<<"t", "2">>, <<"t", "2", "_", "m", "a", "p">>}
PDAliases == {<<"r", "h", "o">>, <<"p", "d">>, <<"p", "d", "_", "m", "a", "p">>}

\* next((k for k in keys if k.lower() in aliases), None): the index of the
\* first matching variable, 0 for None.
FirstKey(mat, aliases) ==
    LET hits == {i \in 1..Len(mat.vars) : Lower(mat.vars[i].key) \in aliases}
    IN  IF hits = {} THEN 0 ELSE CHOOSE i \in hits : \A j \in hits : i <= j

\* ---------------------------------------------------------- load_mat_file
\* The running state of one load_mat_file call: the three attributes of self
\* as assigned so far, which of them this call has assigned, the local
\* "found", and the exception that left the block ("" when none).
LoadState(t1, t2, pd) ==
    [t1 |-> t1, t2 |-> t2, pd |-> pd, found |-> FALSE, exc |-> "", assigned |-> {}]

\* np.array(vobj[name][0][0], dtype=np.float64) succeeds: the struct has the
\* field and its content converts.
FieldReadable(vobj, name) == name \in vobj.names /\ vobj.val[name].kind = "num"

FieldArray(mat, vobj, name) ==
    Array(vobj.val[name].shape, <<mat.id, kVObj \o <<".">> \o name>>, vobj.val[name].max)

\* self.<attr> = value, inside load_mat_file
Assign(s, attr, value) ==
    [s EXCEPT !.t1 = IF attr = "t1_vol" THEN value ELSE @,
              !.t2 = IF attr = "t2_vol" THEN value ELSE @,
              !.pd = IF attr = "pd_vol" THEN value ELSE @,
              !.assigned = @ \cup {attr}]

Found(s) == [s EXCEPT !.found = TRUE]
Fail(s, exc) == [s EXCEPT !.exc = exc]

\* The PD of a 'VObj' with 'PD' looked up before 'Rho'.
ParseVObjPDFirst(mat, vobj, s) ==
    IF kPD \in vobj.names
    THEN IF vobj.val[kPD].kind = "num"
         THEN Found(Assign(s, "pd_vol", FieldArray(mat, vobj, kPD)))
         ELSE s
    ELSE IF kRho \in vobj.names
    THEN IF vobj.val[kRho].kind = "num"
         THEN Found(Assign(s, "pd_vol", FieldArray(mat, vobj, kRho)))
         ELSE s
    ELSE Found(Assign(s, "pd_vol", OnesLike(s.t1)))

\* Lines 152-158, after T1 and T2 were read into s.
ParseVObjPD(mat, vobj, s) ==
    IF kRho \in vobj.names
    THEN IF vobj.val[kRho].kind = "num"
         THEN Found(Assign(s, "pd_vol", FieldArray(mat, vobj, kRho)))
         ELSE s
    ELSE IF kPD \in vobj.names
    THEN IF vobj.val[kPD].kind = "num"
         THEN Found(Assign(s, "pd_vol", FieldArray(mat, vobj, kPD)))
         ELSE s
    ELSE Found(Assign(s, "pd_vol", OnesLike(s.t1)))

\* Line 151 onwards, after T1 was read into s.
ParseVObjT2(mat, vobj, s) ==
    IF ~FieldReadable(vobj, kT2) THEN s
    ELSE ParseVObjPD(mat, vobj, Assign(s, "t2_vol", FieldArray(mat, vobj, kT2)))

\* Lines 148-160: the 'VObj' block.  Each attribute is assigned as soon as its
\* field is read; an exception at a later field is swallowed by the bare
\* except and leaves the earlier assignments in place, with found still False.
ParseVObj(mat, s) ==
    IF ~FieldReadable(GetVObj(mat), kT1) THEN s
    ELSE ParseVObjT2(mat, GetVObj(mat), Assign(s, "t1_vol", FieldArray(mat, GetVObj(mat), kT1)))

\* mat[key].astype(np.float64)
FlatArray(mat, i) ==
    Array(mat.vars[i].ent.shape, <<mat.id, mat.vars[i].key>>, mat.vars[i].ent.max)

AstypeError == "ValueError: could not convert string to float"

Convertible(mat, i) == mat.vars[i].ent.kind = "num"

\* Line 169, after T1 and T2 were read into s.
ParseFlatPD(mat, pd_key, s) ==
    IF pd_key = 0 THEN Found(Assign(s, "pd_vol", OnesLike(s.t1)))
    ELSE IF ~Convertible(mat, pd_key) THEN Fail(s, AstypeError)
    ELSE Found(Assign(s, "pd_vol", FlatArray(mat, pd_key)))

\* Line 168 onwards, after T1 was read into s.
ParseFlatT2(mat, t2_key, pd_key, s) ==
    IF ~Convertible(mat, t2_key) THEN Fail(s, AstypeError)
    ELSE ParseFlatPD(mat, pd_key, Assign(s, "t2_vol", FlatArray(mat, t2_key)))

\* Lines 166-170, for the keys found.
ParseFlatKeys(mat, t1_key, t2_key, pd_key, s) ==
    IF t1_key = 0 \/ t2_key = 0 THEN s
    ELSE IF ~Convertible(mat, t1_key) THEN Fail(s, AstypeError)
    ELSE ParseFlatT2(mat, t2_key, pd_key, Assign(s, "t1_vol", FlatArray(mat, t1_key)))

\* Lines 161-170: the flat schema.  An .astype that raises leaves the function
\* through the outer except, after the assignments already made.
ParseFlat(mat, s) ==
    ParseFlatKeys(mat, FirstKey(mat, T1Aliases), FirstKey(mat, T2Aliases),
                  FirstKey(mat, PDAliases), s)

ZeroSizeMaxError == "ValueError: zero-size array to reduction operation maximum which has no identity"

\* Lines 171-180: NaN scrubbing of the three arrays, then the unit
\* correction; np.max of an array without elements raises ValueError.
CleanAndScale(s) ==
    LET c == [s EXCEPT !.t1 = NanToNum(s.t1), !.t2 = NanToNum(s.t2), !.pd = NanToNum(s.pd)]
    IN  IF Size(c.t1.shape) = 0 THEN [c EXCEPT !.exc = ZeroSizeMaxError]
        ELSE IF c.t1.max < SecondsThreshold
        THEN [c EXCEPT !.t1 = TimesThousand(c.t1), !.t2 = TimesThousand(c.t2)]
        ELSE c

LoadmatError == "FileNotFoundError: No such file or directory"

\* Lines 144-182, the body of the try block: what load_mat_file does up to
\* its return statement or to the exception that leaves the block.
LoadBody(mat, t1, t2, pd) ==
    LET s0 == LoadState(t1, t2, pd)
        sV == IF HasVObj(mat) THEN ParseVObj(mat, s0) ELSE s0
        sF == IF ~sV.found THEN ParseFlat(mat, sV) ELSE sV
    IN  IF ~mat.readable THEN [s0 EXCEPT !.exc = LoadmatError]
        ELSE IF sF.exc = "" /\ sF.found THEN CleanAndScale(sF)
        ELSE sF

\* A handler that catches ValueError only ("except ValueError as e"): any
\* other exception of the body reaches the caller.
ExceptValueErrorOnly(exc) ==
    IF exc \in {AstypeError, ZeroSizeMaxError}
    THEN [raised |-> "", ok |-> FALSE, msg |-> exc]
    ELSE [raised |-> exc, ok |-> FALSE, msg |-> ""]

\* Lines 183-184: "except Exception as e: return False, str(e)".  Every
\* exception of the body is an Exception, so none escapes (raised = "").
OuterExcept(exc) == [raised |-> "", ok |-> FALSE, msg |-> exc]

\* load_mat_file(fname), fname naming the container mat: the attributes of
\* self when the call ends (t1, t2, pd), the value of found when the call
\* left the schema search, the attributes it assigned, the exception of the
\* body (exc), the exception that escaped to the caller
\* (raised, "" for none) and the returned pair (ok, msg).
load_mat_file(mat, t1, t2, pd) ==
    LET b == LoadBody(mat, t1, t2, pd)
        r == IF b.exc # "" THEN OuterExcept(b.exc)
             ELSE IF b.found THEN [raised |-> "", ok |-> TRUE, msg |-> "Loaded"]
             ELSE [raised |-> "", ok |-> FALSE, msg |-> "No T1/T2"]
    IN  [t1 |-> b.t1, t2 |-> b.t2, pd |-> b.pd, found |-> b.found, exc |-> b.exc,
         assigned |-> b.assigned, raised |-> r.raised, ok |-> r.ok, msg |-> r.msg]

\* ------------------------------------------------------ dimension queries
IndexErrorTuple == "IndexError: tuple index out of range"

\* get_dimensions()
get_dimensions(t1) ==
    IF t1 # None THEN [exc |-> "", val |-> t1.shape] ELSE [exc |-> "", val |-> <<0, 0, 0>>]

\* shape[i] (0-based): IndexError when the array has fewer axes.
ShapeAt(shape, i) ==
    IF i + 1 <= Len(shape) THEN [exc |-> "", val |-> shape[i + 1]]
    ELSE [exc |-> IndexErrorTuple, val |-> 0]

\* A get_max_slice that reads axis 1 for 'coronal' and axis 0 for 'sagittal'.
get_max_slice_swapped(t1, plane) ==
    IF t1 = None THEN [exc |-> "", val |-> 0]
    ELSE IF plane = "coronal" THEN ShapeAt(t1.shape, 1)
    ELSE IF plane = "sagittal" THEN ShapeAt(t1.shape, 0)
    ELSE ShapeAt(t1.shape, 2)

\* get_max_slice(plane)
get_max_slice(t1, plane) ==
    IF t1 = None THEN [exc |-> "", val |-> 0]
    ELSE IF plane = "coronal" THEN ShapeAt(t1.shape, 0)
    ELSE IF plane = "sagittal" THEN ShapeAt(t1.shape, 1)
    ELSE ShapeAt(t1.shape, 2)

\* --------------------------------------------------------- calculate_image
Planes == {"axial", "sagittal", "coronal"}

IndexErrorArray == "IndexError: too many indices or index out of bounds"
BroadcastError == "ValueError: operands could not be broadcast together"
ZeroDivision == "ZeroDivisionError: division by zero"
NdimageError == "RuntimeError: scipy.ndimage rejects a zero-sized array"
NegativeDimError == "ValueError: negative dimensions are not allowed"
FftError == "ValueError: Invalid number of FFT data points (0) specified"

\* A 2-D slab cut from a volume: the volume it is a view of, the axis and the
\* half-open index range read along it, whether the range was averaged
\* (np.mean, axial) and whether .T and np.flipud were applied (MPR).
Slab(shape, arr, axis, lo, hi, mean, oriented) ==
    [exc |-> "", shape |-> shape, of |-> arr, axis |-> axis, lo |-> lo, hi |-> hi,
     mean |-> mean, oriented |-> oriented]

NoSlab(exc) ==
    [exc |-> exc, shape |-> <<0, 0>>, of |-> None, axis |-> 0, lo |-> 0, hi |-> 0,
     mean |-> FALSE, oriented |-> FALSE]

\* vol[:, z, :] (axis 1) or vol[z, :, :] (axis 0), then .T and np.flipud:
\* IndexError unless vol has three axes and z is inside the indexed axis.
TakeIndex(vol, axis, z) ==
    IF Len(vol.shape) # 3 THEN NoSlab(IndexErrorArray)
    ELSE IF z >= vol.shape[axis + 1] THEN NoSlab(IndexErrorArray)
    ELSE IF axis = 1 THEN Slab(<<vol.shape[3], vol.shape[1]>>, vol, 1, z, z + 1, FALSE, TRUE)
    ELSE Slab(<<vol.shape[3], vol.shape[2]>>, vol, 0, z, z + 1, FALSE, TRUE)

\* np.mean(vol[:, :, z_start:z_end], axis=2): IndexError unless vol has three
\* axes; the slice is cut to vol's own extent, and the mean of an empty range
\* is NaN, not an exception.
TakeRange(vol, z_start, z_end) ==
    IF Len(vol.shape) # 3 THEN NoSlab(IndexErrorArray)
    ELSE Slab(<<vol.shape[1], vol.shape[2]>>, vol, 2,
              Min2(z_start, vol.shape[3]), Min2(z_end, vol.shape[3]), TRUE, FALSE)

\* max(0, min(slice_idx, max_slice - 1))
ClampSlice(slice_idx, max_slice) == Max2(0, Min2(slice_idx, max_slice - 1))

\* An averaging window that ends at z_center + half_thick.
AxialWindowExclusive(z_center, thickness, max_slice) ==
    LET half_thick == Max2(0, TruncDiv(thickness, 2))
        z_start == Max2(0, z_center - half_thick)
        z_end == Min2(max_slice, z_center + half_thick)
    IN  [z_start |-> z_start, z_end |-> IF z_end <= z_start THEN z_start + 1 ELSE z_end]

\* Lines 236-239: the axial averaging window [z_start, z_end).
AxialWindow(z_center, thickness, max_slice) ==
    LET half_thick == Max2(0, TruncDiv(thickness, 2))
        z_start == Max2(0, z_center - half_thick)
        z_end == Min2(max_slice, z_center + half_thick + 1)
    IN  [z_start |-> z_start, z_end |-> IF z_end <= z_start THEN z_start + 1 ELSE z_end]

\* The extent calculate_image clamps the slice index against: dims[1] for
\* 'sagittal', dims[2] for 'axial', dims[0] for every other plane name.
RenderMaxSlice(dims, view_plane) ==
    IF view_plane # "axial"
    THEN IF view_plane = "sagittal" THEN ShapeAt(dims, 1) ELSE ShapeAt(dims, 0)
    ELSE ShapeAt(dims, 2)

\* One volume's slab: an index along the plane's axis for MPR, the averaged
\* window for axial.
Cut(vol, view_plane, z_center, win) ==
    IF view_plane # "axial"
    THEN TakeIndex(vol, IF view_plane = "sagittal" THEN 1 ELSE 0, z_center)
    ELSE TakeRange(vol, win.z_start, win.z_end)

\* The first exception raised, in program order.
FirstExc(excs) ==
    IF \A i \in 1..Len(excs) : excs[i] = "" THEN ""
    ELSE excs[CHOOSE i \in 1..Len(excs) :
                 excs[i] # "" /\ \A j \in 1..(i - 1) : excs[j] = ""]

Slabs(exc, max_slice, z_center, t1_s, t2_s, pd_s) ==
    [exc |-> exc, max_slice |-> max_slice, z_center |-> z_center,
     t1_s |-> IF exc = "" THEN t1_s ELSE NoSlab(exc),
     t2_s |-> IF exc = "" THEN t2_s ELSE NoSlab(exc),
     pd_s |-> IF exc = "" THEN pd_s ELSE NoSlab(exc)]

ResliceCut(ms, z_center, t1_s, t2_s, pd_s) ==
    Slabs(FirstExc(<<ms.exc, t1_s.exc, t2_s.exc, pd_s.exc>>), ms.val, z_center,
          t1_s, t2_s, pd_s)

ResliceAt(t1, t2, pd, view_plane, ms, z_center, win) ==
    ResliceCut(ms, z_center, Cut(t1, view_plane, z_center, win),
               Cut(t2, view_plane, z_center, win), Cut(pd, view_plane, z_center, win))

ResliceIn(t1, t2, pd, thickness, view_plane, ms, z_center) ==
    ResliceAt(t1, t2, pd, view_plane, ms, z_center,
              AxialWindow(z_center, thickness, ms.val))

\* Lines 197-243: slice extraction.  The extent and the clamped index come
\* from t1_vol's shape; the same index is then used on all three volumes.
Reslice(t1, t2, pd, slice_idx, thickness, view_plane) ==
    ResliceIn(t1, t2, pd, thickness, view_plane, RenderMaxSlice(t1.shape, view_plane),
              ClampSlice(slice_idx, RenderMaxSlice(t1.shape, view_plane).val))

\* numpy broadcasting of two 2-D shapes.
BroadcastAxis(m, n) == IF m = n THEN m ELSE IF m = 1 THEN n ELSE IF n = 1 THEN m ELSE -1

Broadcast(a, b) ==
    LET r == <<BroadcastAxis(a[1], b[1]), BroadcastAxis(a[2], b[2])>>
    IN  [exc |-> IF r[1] < 0 \/ r[2] < 0 THEN BroadcastError ELSE "", shape |-> r]

\* A 2-D array inside the pipeline: its shape and how it was computed.
Image(shape, signal) ==
    [kind |-> "image", shape |-> shape, signal |-> signal, zoom |-> <<>>,
     rotation |-> 0, windows |-> <<>>, rot90 |-> FALSE]

\* What a signal function leaves behind: the exception it raised ("" for
\* none), the array it returned, and its three input views as they are when
\* it ends (a view shares its memory with the volume it was cut from).
Raised(exc, t1_s, t2_s, pd_s) ==
    [exc |-> exc, img |-> None, t1_s |-> t1_s, t2_s |-> t2_s, pd_s |-> pd_s]
Value(img, t1_s, t2_s, pd_s) ==
    [exc |-> "", img |-> img, t1_s |-> t1_s, t2_s |-> t2_s, pd_s |-> pd_s]

\* The shape of pd * f(t1) * g(t2), the product both signal equations form.
SignalShape(t1_s, t2_s, pd_s) ==
    LET a == Broadcast(pd_s.shape, t1_s.shape)
    IN  IF a.exc # "" THEN a ELSE Broadcast(a.shape, t2_s.shape)

Signal(eq, tr, te, ti, fa, t1_s, t2_s, pd_s) ==
    [eq |-> eq, tr |-> tr, te |-> te, ti |-> ti, fa |-> fa, decay_esp |-> 0, blur |-> 0,
     t1_s |-> t1_s, t2_s |-> t2_s, pd_s |-> pd_s]

\* A steady-state signal that scrubs its T1 input in place
\* (np.nan_to_num(t1, copy=False)): the view's volume is written.
steady_state_in_place(t1_s, t2_s, pd_s, tr, te, fa_deg) ==
    LET sh == SignalShape(t1_s, t2_s, pd_s)
        w1 == [t1_s EXCEPT !.of.scrubbed = TRUE]
    IN  IF sh.exc # "" THEN Raised(sh.exc, w1, t2_s, pd_s)
        ELSE Value(Image(sh.shape, Signal("steady_state", tr, te, 0, fa_deg, w1, t2_s, pd_s)),
                   w1, t2_s, pd_s)

\* MRIPhysics.calculate_signal_steady_state: np.maximum builds clamped copies
\* of t1 and t2, and every later operand is a fresh array; the input views
\* are only read.
calculate_signal_steady_state(t1_s, t2_s, pd_s, tr, te, fa_deg) ==
    LET sh == SignalShape(t1_s, t2_s, pd_s)
    IN  IF sh.exc # "" THEN Raised(sh.exc, t1_s, t2_s, pd_s)
        ELSE Value(Image(sh.shape, Signal("steady_state", tr, te, 0, fa_deg, t1_s, t2_s, pd_s)),
                   t1_s, t2_s, pd_s)

\* MRIPhysics.spin_echo
spin_echo(t1_s, t2_s, pd_s, tr, te, fa_deg) ==
    calculate_signal_steady_state(t1_s, t2_s, pd_s, tr, te, fa_deg)

\* MRIPhysics.gradient_echo
gradient_echo(t1_s, t2_s, pd_s, tr, te, fa_deg) ==
    calculate_signal_steady_state(t1_s, t2_s, pd_s, tr, te, fa_deg)

\* MRIPhysics.inversion_recovery: the input views are only read.
inversion_recovery(t1_s, t2_s, pd_s, tr, te, ti, fa_deg) ==
    LET sh == SignalShape(t1_s, t2_s, pd_s)
    IN  IF sh.exc # "" THEN Raised(sh.exc, t1_s, t2_s, pd_s)
        ELSE Value(Image(sh.shape,
                         Signal("inversion_recovery", tr, te, ti, fa_deg, t1_s, t2_s, pd_s)),
                   t1_s, t2_s, pd_s)

sFLAIR == <<"F", "L", "A", "I", "R">>
sEPI == <<"E", "P", "I">>
sFSE == <<"F", "S", "E">>

IsEmpty(shape) == Size(shape) = 0

\* Lines 251-253: the gradient-echo base times the echo-spacing decay.
EpiDecay(base, esp) ==
    IF base.exc # "" THEN base ELSE [base EXCEPT !.img.signal.decay_esp = esp]

\* Lines 256-259: gaussian_filter1d along axis 0 when etl > 1.  strict: this
\* build's scipy.ndimage raises on a zero-sized array instead of returning it.
FseBlur(img, etl, esp, strict) ==
    IF img.exc # "" \/ etl <= 1 THEN img
    ELSE IF strict /\ IsEmpty(img.img.shape)
    THEN [img EXCEPT !.exc = NdimageError, !.img = None]
    ELSE [img EXCEPT !.img.signal.blur = etl * esp]

\* A dispatch that tests "EPI" before "FLAIR".
ApplySequenceEpiFirst(r, seq_type, tr, te, ti, fa, etl, esp, strict) ==
    IF Contains(seq_type, sEPI)
    THEN EpiDecay(gradient_echo(r.t1_s, r.t2_s, r.pd_s, tr, te, fa), esp)
    ELSE IF Contains(seq_type, sFLAIR)
    THEN inversion_recovery(r.t1_s, r.t2_s, r.pd_s, tr, te, ti, fa)
    ELSE IF Contains(seq_type, sFSE)
    THEN FseBlur(spin_echo(r.t1_s, r.t2_s, r.pd_s, tr, te, fa), etl, esp, strict)
    ELSE spin_echo(r.t1_s, r.t2_s, r.pd_s, tr, te, fa)

\* Lines 245-262: the pulse-sequence dispatch.
ApplySequence(r, seq_type, tr, te, ti, fa, etl, esp, strict) ==
    IF Contains(seq_type, sFLAIR)
    THEN inversion_recovery(r.t1_s, r.t2_s, r.pd_s, tr, te, ti, fa)
    ELSE IF Contains(seq_type, sEPI)
    THEN EpiDecay(gradient_echo(r.t1_s, r.t2_s, r.pd_s, tr, te, fa), esp)
    ELSE IF Contains(seq_type, sFSE)
    THEN FseBlur(spin_echo(r.t1_s, r.t2_s, r.pd_s, tr, te, fa), etl, esp, strict)
    ELSE spin_echo(r.t1_s, r.t2_s, r.pd_s, tr, te, fa)

\* ------------------------------------------------------- geometry stages
\* img[a:b] along an axis of extent n, for 0 <= a and 0 <= b.
SliceLen(n, a, b) == Max2(0, Min2(b, n) - Min2(a, n))

\* A crop_or_pad axis that pads both sides by abs(diff) // 2.
CropOrPadAxisEvenPad(n, target_size) ==
    LET diff == n - target_size
        start == FloorDiv(diff, 2)
        pad_before == FloorDiv(Abs(diff), 2)
    IN  IF diff >= 0
        THEN [op |-> "crop", a |-> start, b |-> start + target_size,
              len |-> SliceLen(n, start, start + target_size)]
        ELSE [op |-> "pad", a |-> pad_before, b |-> pad_before,
              len |-> n + pad_before + pad_before]

\* A crop_or_pad axis whose crop keeps the first target_size pixels.
CropOrPadAxisFromZero(n, target_size) ==
    LET diff == n - target_size
        pad_before == FloorDiv(Abs(diff), 2)
    IN  IF diff >= 0
        THEN [op |-> "crop", a |-> 0, b |-> target_size, len |-> SliceLen(n, 0, target_size)]
        ELSE [op |-> "pad", a |-> pad_before, b |-> Abs(diff) - pad_before,
              len |-> n + pad_before + (Abs(diff) - pad_before)]

\* One axis of crop_or_pad (lines 321-326 for rows, 327-332 for columns).
CropOrPadAxis(n, target_size) ==
    LET diff == n - target_size
        start == FloorDiv(diff, 2)
        pad_before == FloorDiv(Abs(diff), 2)
    IN  IF diff >= 0
        THEN [op |-> "crop", a |-> start, b |-> start + target_size,
              len |-> SliceLen(n, start, start + target_size)]
        ELSE [op |-> "pad", a |-> pad_before, b |-> Abs(diff) - pad_before,
              len |-> n + pad_before + (Abs(diff) - pad_before)]

\* crop_or_pad(img, target_size)
crop_or_pad(img, target_size) ==
    LET rows == CropOrPadAxis(img.shape[1], target_size)
        cols == CropOrPadAxis(img.shape[2], target_size)
    IN  IF img.shape[1] - target_size = 0 /\ img.shape[2] - target_size = 0 THEN img
        ELSE [img EXCEPT !.shape = <<rows.len, cols.len>>,
                         !.windows = Append(img.windows, <<rows, cols>>)]

\* The pixels along an axis of extent n after the slice or pad w: input pixel
\* i is written i, a padded pixel 0.
AxisPixels(n, w) ==
    IF w.op = "crop"
    THEN [i \in 1..w.len |-> w.a + i]
    ELSE [i \in 1..w.len |-> IF i <= w.a \/ i > w.a + n THEN 0 ELSE i - w.a]

\* The (src_phys, matrix_size, fov) among the inputs whose binary64 product
\* src_phys * (matrix_size / fov) falls below the integer it equals in exact
\* arithmetic: 123 / 240 is rounded down to the nearest double, and
\* 240 * (123 / 240) = 122.99999999999999, 240 * (123 / 120) = 245.99999999999997.
\* For every other input of this module the product is on the exact side.
ShortProducts == {<<240, 123, 240>>, <<240, 123, 120>>}

\* Lines 266-281: pixels_per_mm = matrix_size / fov is a double, and
\* int(src_phys * pixels_per_mm) truncates the double product, for fov > 0.
TargetPixels(src_phys, matrix_size, fov) ==
    IF <<src_phys, matrix_size, fov>> \in ShortProducts
    THEN TruncDiv(src_phys * matrix_size, fov) - 1
    ELSE TruncDiv(src_phys * matrix_size, fov)

\* A stage of the pipeline: the exception it raised ("" for none) and its
\* output array.
Stage(exc, img) == [exc |-> exc, img |-> img]

\* scipy.ndimage.zoom(img, (zoom_h, zoom_w), order=1) with zoom_h = nh / dh
\* and zoom_w = nw / dw: the output has round(extent * factor) pixels per axis.
Zoom(img, nh, dh, nw, dw, strict) ==
    IF nh < 0 \/ nw < 0 THEN Stage(NegativeDimError, None)
    ELSE IF strict /\ (RoundHalfEven(img.shape[1] * nh, dh) = 0
                       \/ RoundHalfEven(img.shape[2] * nw, dw) = 0)
    THEN Stage(NdimageError, None)
    ELSE Stage("", [img EXCEPT !.shape = <<RoundHalfEven(img.shape[1] * nh, dh),
                                           RoundHalfEven(img.shape[2] * nw, dw)>>,
                               !.zoom = <<nh, dh, nw, dw>>])

\* Lines 283-298: the zoom is skipped for an empty slab; MPR zooms rows by
\* target_h / h and columns by target_w / w, axial zooms both by target_w / w.
Resample(img, is_mpr, target_h, target_w, strict) ==
    IF ~(img.shape[1] > 0 /\ img.shape[2] > 0) THEN Stage("", img)
    ELSE IF is_mpr THEN Zoom(img, target_h, img.shape[1], target_w, img.shape[2], strict)
    ELSE Zoom(img, target_w, img.shape[2], target_w, img.shape[2], strict)

\* Lines 301-302: scipy.ndimage.rotate(.., reshape=False) keeps the shape.
Rotate(res, rotation, strict) ==
    IF res.exc # "" \/ rotation = 0 THEN res
    ELSE IF strict /\ IsEmpty(res.img.shape) THEN Stage(NdimageError, None)
    ELSE Stage("", [res.img EXCEPT !.rotation = rotation])

\* np.rot90(final_img, k=1)
Rot90(img) == [img EXCEPT !.shape = <<img.shape[2], img.shape[1]>>, !.rot90 = TRUE]

\* np.fft.fftshift(np.fft.fft2(final_img)): the transform has the image's
\* shape; an axis without points raises ValueError.
Fft2(img) ==
    IF IsEmpty(img.shape) THEN [exc |-> FftError, k |-> None]
    ELSE [exc |-> "", k |-> [kind |-> "kspace", shape |-> img.shape, of |-> img]]

\* The attributes of an MRISimulatorModel instance.
Self(t1, t2, pd, img, k) ==
    [t1_vol |-> t1, t2_vol |-> t2, pd_vol |-> pd, current_image |-> img, k_space |-> k]

\* How a call ended: returned a value (exc = ""), or raised.
Return(self, val) == [self |-> self, exc |-> "", val |-> val]
Raise(self, exc) == [self |-> self, exc |-> exc, val |-> None]

\* A cache that keeps the image it already holds
\* ("if self.current_image is None: self.current_image = final_img").
StoreImageOnce(old, final_img) == IF old = None THEN final_img ELSE old

\* Line 311: self.current_image = final_img
StoreImage(old, final_img) == final_img

\* Line 312: self.k_space = <the transform just computed>
StoreKSpace(old, k) == k

\* Lines 312-313: the transform is stored and the image returned, unless
\* fft2 raised after current_image was assigned.
StoreTransform(withImage, final_img, fft) ==
    IF fft.exc # "" THEN Raise(withImage, fft.exc)
    ELSE Return([withImage EXCEPT !.k_space = StoreKSpace(withImage.k_space, fft.k)],
                final_img)

\* Lines 311-313.
StoreAndReturn(self, final_img) ==
    StoreTransform([self EXCEPT !.current_image = StoreImage(self.current_image, final_img)],
                   final_img, Fft2(final_img))

\* Lines 305-308: crop or pad to matrix_size, then the quarter turn of MPR.
FinalImage(img_res, matrix_size, is_mpr) ==
    IF is_mpr THEN Rot90(crop_or_pad(img_res, matrix_size))
    ELSE crop_or_pad(img_res, matrix_size)

Finish(self, rot, a) ==
    IF rot.exc # "" THEN Raise(self, rot.exc)
    ELSE StoreAndReturn(self, FinalImage(rot.img, a.matrix_size, a.view_plane # "axial"))

\* Lines 268-281: the physical extent of the rows, base_fov for axial and
\* rows * (thickness + gap) for MPR, and the target pixel counts.
SrcPhysH(img, a) ==
    IF a.view_plane # "axial" THEN img.shape[1] * (a.thickness + a.gap) ELSE base_fov

\* Lines 264-313: resampling, rotation, crop/pad, the cache writes and the
\* return, for the signal image img computed from self's volumes.
Reconstruct(self, img, a, strict) ==
    IF a.fov = 0 THEN Raise(self, ZeroDivision)
    ELSE Finish(self,
                Rotate(Resample(img, a.view_plane # "axial",
                                TargetPixels(SrcPhysH(img, a), a.matrix_size, a.fov),
                                TargetPixels(base_fov, a.matrix_size, a.fov), strict),
                       a.rotation, strict),
                a)

\* The volumes after the signal function ran: the arrays its views are
\* views of.
WriteBack(self, sig) ==
    [self EXCEPT !.t1_vol = sig.t1_s.of, !.t2_vol = sig.t2_s.of, !.pd_vol = sig.pd_s.of]

AfterSignal(self, sig, a, strict) ==
    IF sig.exc # "" THEN Raise(WriteBack(self, sig), sig.exc)
    ELSE Reconstruct(WriteBack(self, sig), sig.img, a, strict)

AfterReslice(self, r, a, strict) ==
    IF r.exc # "" THEN Raise(self, r.exc)
    ELSE AfterSignal(self,
                     ApplySequence(r, a.seq_type, a.tr, a.te, a.ti, a.fa, a.etl, a.esp, strict),
                     a, strict)

\* calculate_image(seq_type, tr, te, ti, fa, slice_idx, etl, esp, fov,
\* thickness, gap, matrix_size, rotation, view_plane), a the arguments: the
\* attributes of self when the call ends, and its return value or exception.
calculate_image(self, a, strict) ==
    IF self.t1_vol = None THEN Return(self, None)
    ELSE AfterReslice(self,
                      Reslice(self.t1_vol, self.t2_vol, self.pd_vol,
                              a.slice_idx, a.thickness, a.view_plane),
                      a, strict)

\* ---------------------------------------------------------------- exports
\* export_kspace(path); writable: scipy.io.savemat(path, ..) succeeds.
export_kspace(self, writable) ==
    IF self.k_space # None THEN Return(self, writable) ELSE Return(self, FALSE)

SaveError == "OSError: cannot write file"

\* export_dicom(path, p_info, seq_name); writable: ds.save_as(path) succeeds.
\* np.max of a cached image without pixels raises inside the try block.
export_dicom(self, writable) ==
    IF self.current_image = None THEN Return(self, <<FALSE, "No Image">>)
    ELSE IF IsEmpty(self.current_image.shape) THEN Return(self, <<FALSE, ZeroSizeMaxError>>)
    ELSE IF ~writable THEN Return(self, <<FALSE, SaveError>>)
    ELSE Return(self, <<TRUE, "Success">>)

\* ------------------------------------------------------------ pixel values
\* An image is a term, so its pixel values are known by bounds only.  Values
\* are written in quarters (2 is 0.5, 6 is 1.5), and an array by two of its
\* pixels.
Uint16Max == 65535
PixelLevels == {-6, -2, 0, 2, 6}

\* np.sin(np.radians(fa_deg)) as a sign, for whole degrees fa_deg >= 0; in
\* floating point sin(radians(180)) > 0 and sin(radians(360)) < 0.
SinSign(fa_deg) ==
    IF fa_deg = 0 THEN 0 ELSE IF fa_deg % 360 \in 1..180 THEN 1 ELSE -1

\* The bounds of a PD array: np.max above; below, 0 for the phantom and for
\* np.ones_like, nothing for an array read from a file.
PdHigh(pd) == 4 * pd.max
PdLow(pd) == IF pd.origin[1] \in {"phantom", "ones_like"} THEN 0 ELSE -8

\* Lines 73-110 and 296-308: a pixel is pd * g interpolated or padded with 0.
\* inversion_recovery takes the modulus; calculate_signal_steady_state has,
\* for tr > 0, a factor g of the sign of sin(fa) and of modulus below 1.
PixelAllowed(img, q) ==
    IF img.signal.eq = "inversion_recovery" THEN q >= 0
    ELSE IF img.signal.tr <= 0 THEN TRUE
    ELSE IF SinSign(img.signal.fa) = 1
    THEN q = 0 \/ (PdLow(img.signal.pd_s.of) < q /\ q < PdHigh(img.signal.pd_s.of))
    ELSE IF SinSign(img.signal.fa) = -1
    THEN q = 0 \/ (-PdHigh(img.signal.pd_s.of) < q /\ q < -PdLow(img.signal.pd_s.of))
    ELSE q = 0

\* The pixel arrays the cached image may be.
PixelArrays(img) ==
    IF img = None THEN {<<>>}
    ELSE {a \in [1..2 -> PixelLevels] : \A i \in 1..2 : PixelAllowed(img, a[i])}

\* np.max(pixels), for a non-empty array
MaxOf(pixels) == CHOOSE m \in {pixels[i] : i \in DOMAIN pixels} : \A i \in DOMAIN pixels : pixels[i] <= m

\* .astype(np.uint16) of a float whose integer part is t.  Outside 0..65535
\* the C conversion is undefined: wraps = TRUE for a build that reduces
\* modulo 2^16, FALSE for one that saturates.
ToUint16(t, wraps) ==
    IF t \in 0..Uint16Max THEN t
    ELSE IF wraps THEN t % (Uint16Max + 1)
    ELSE IF t < 0 THEN 0 ELSE Uint16Max

\* Lines 381-387 of export_dicom: ds.PixelData, to within the rounding of the
\* float division.
PixelData(pixels, wraps) ==
    IF MaxOf(pixels) > 0
    THEN [i \in DOMAIN pixels |->
             ToUint16(TruncDiv(pixels[i] * Uint16Max, MaxOf(pixels)), wraps)]
    ELSE [i \in DOMAIN pixels |-> ToUint16(TruncDiv(pixels[i], 4), wraps)]

\* ------------------------------------------------------ MRISimulatorWindow
\* The window (src/MRI_UI.py) as far as it holds state or calls the model:
\* the per-view parameter records and slice indices, the active view, the
\* controls (each parameter has a slider and a spin box; the two combo
\* boxes), the slice slider, the scan history, and what the four axes show.
\* Anything only drawn (titles, the scout rectangle) is left out.
\*
\* A handler is a function on a "world": the model's attributes (m), the
\* window's attributes (w) and the exception that ended the handler (exc,
\* "" for none).  An exception raised inside a Qt slot is not caught by the
\* program; the window is then taken as aborted.

\* A character of an item text that is not ASCII.
cJia == "U+52A0"
cQuan == "U+6743"

\* combo_seq.addItems(["T1 加权", "T2 加权", "FLAIR", "PD 加权", "EPI", "FSE"])
SeqItems ==
    << <<"T", "1", " ", cJia, cQuan>>, <<"T", "2", " ", cJia, cQuan>>, sFLAIR,
       <<"P", "D", " ", cJia, cQuan>>, sEPI, sFSE >>

\* combo_res.addItems(["64 * 64", "128 * 128", "256 * 256", "512 * 512"])
ResItems ==
    << <<"6", "4", " ", "*", " ", "6", "4">>,
       <<"1", "2", "8", " ", "*", " ", "1", "2", "8">>,
       <<"2", "5", "6", " ", "*", " ", "2", "5", "6">>,
       <<"5", "1", "2", " ", "*", " ", "5", "1", "2">> >>

\* combo.itemText(i), i counted from 0
ItemText(items, i) == items[i + 1]

\* combo.findText(text): the index of the first item equal to text, -1 for none.
FindText(items, text) ==
    IF \E i \in 1..Len(items) : items[i] = text
    THEN (CHOOSE i \in 1..Len(items) : items[i] = text /\ \A j \in 1..(i - 1) : items[j] # text) - 1
    ELSE -1

DigitValue ==
    [c \in {"0", "1", "2", "3", "4", "5", "6", "7", "8", "9"} |->
        CASE c = "0" -> 0 [] c = "1" -> 1 [] c = "2" -> 2 [] c = "3" -> 3 [] c = "4" -> 4
          [] c = "5" -> 5 [] c = "6" -> 6 [] c = "7" -> 7 [] c = "8" -> 8 [] c = "9" -> 9]

IntError == "ValueError: invalid literal for int() with base 10"

\* text.strip()
Strip(text) ==
    LET solid == {i \in 1..Len(text) : text[i] # " "}
    IN  IF solid = {} THEN <<>>
        ELSE SubSeq(text, CHOOSE i \in solid : \A j \in solid : i <= j,
                          CHOOSE i \in solid : \A j \in solid : i >= j)

\* The value of a run of decimal digits.
RECURSIVE DigitsValue(_)
DigitsValue(digits) ==
    IF digits = <<>> THEN 0
    ELSE 10 * DigitsValue(SubSeq(digits, 1, Len(digits) - 1)) + DigitValue[digits[Len(digits)]]

\* int(text): surrounding blanks are ignored; anything but digits raises.
IntOf(text) ==
    IF Strip(text) # <<>> /\ \A i \in 1..Len(Strip(text)) : Strip(text)[i] \in DOMAIN DigitValue
    THEN [exc |-> "", val |-> DigitsValue(Strip(text))]
    ELSE [exc |-> IntError, val |-> 0]

\* text.split('*')[0]
BeforeStar(text) ==
    IF \E i \in 1..Len(text) : text[i] = "*"
    THEN SubSeq(text, 1, (CHOOSE i \in 1..Len(text) :
                              text[i] = "*" /\ \A j \in 1..(i - 1) : text[j] # "*") - 1)
    ELSE text

\* Line 520: int(mat_txt.split('*')[0].strip()) if '*' in mat_txt else int(mat_txt)
LoopMatrixSize(mat_txt) == IntOf(Strip(BeforeStar(mat_txt)))

\* Line 560: int(mat_active_txt.split('*')[0]) if '*' in mat_active_txt else 256
ActiveMatrixSize(mat_txt) ==
    IF \E i \in 1..Len(mat_txt) : mat_txt[i] = "*" THEN IntOf(BeforeStar(mat_txt))
    ELSE [exc |-> "", val |-> 256]

\* The parameters that have a slider and a spin box, and the range
\* create_param_pair gives both.
PairNames == {"tr", "te", "ti", "fa", "etl", "esp", "fov", "thick", "gap"}

PairRange ==
    [tr |-> <<100, 10000>>, te |-> <<1, 500>>, ti |-> <<100, 4000>>, fa |-> <<0, 180>>,
     etl |-> <<1, 32>>, esp |-> <<1, 100>>, fov |-> <<100, 400>>, thick |-> <<1, 20>>,
     gap |-> <<0, 20>>]

\* The values create_param_pair gives both at creation.
PairInitial ==
    [tr |-> 500, te |-> 20, ti |-> 2000, fa |-> 90, etl |-> 8, esp |-> 10, fov |-> 300,
     thick |-> 1, gap |-> 0]

\* QSpinBox.setValue / QSlider.setValue bring the value into the range.
Bound(v, lo, hi) == Max2(lo, Min2(v, hi))
BoundPair(name, v) == Bound(v, PairRange[name][1], PairRange[name][2])

\* default_params (lines 62-66)
default_params ==
    [seq_idx |-> 0, tr |-> 500, te |-> 20, ti |-> 0, fa |-> 90, etl |-> 1, esp |-> 10,
     fov |-> 300, matrix_idx |-> 2, thick |-> 1, gap |-> 0, angle |-> 0]

\* presets of on_sequence_change (lines 361-368): tr, te, fa per sequence index.
presets ==
    << [tr |-> 500, te |-> 20, fa |-> 90], [tr |-> 4000, te |-> 100, fa |-> 90],
       [tr |-> 9000, te |-> 120, fa |-> 90], [tr |-> 2000, te |-> 20, fa |-> 90],
       [tr |-> 100, te |-> 30, fa |-> 20], [tr |-> 3000, te |-> 80, fa |-> 90] >>

\* A world: model attributes, window attributes, pending exception.
World(m, w) == [m |-> m, w |-> w, exc |-> ""]
Abort(W, exc) == [W EXCEPT !.exc = exc]

\* get_current_ui_params()
get_current_ui_params(w) ==
    [seq_idx |-> w.combo_seq, tr |-> w.spin.tr, te |-> w.spin.te, ti |-> w.spin.ti,
     fa |-> w.spin.fa, etl |-> w.spin.etl, esp |-> w.spin.esp, fov |-> w.spin.fov,
     matrix_idx |-> w.combo_res.index, thick |-> w.spin.thick, gap |-> w.spin.gap,
     angle |-> w.scan_angle]

\* The keyword arguments update_image passes to calculate_image from a view's
\* parameter record p.
CallArgs(p, seq_name, matrix_size, idx, gap, plane) ==
    [seq_type |-> seq_name, tr |-> p.tr, te |-> p.te, ti |-> p.ti, fa |-> p.fa,
     slice_idx |-> idx, etl |-> p.etl, esp |-> p.esp, fov |-> p.fov, thickness |-> p.thick,
     gap |-> gap, matrix_size |-> matrix_size, rotation |-> p.angle, view_plane |-> plane]

\* What an axes shows: the image handed to imshow (None after ax.clear()
\* alone) and the arguments of the call that computed it.
Shown(img, args) == [img |-> img, args |-> args]
Blank == Shown(None, None)

\* StoreParams with the first view's record as the target whatever the active
\* view is.
StoreParamsAxial(W) ==
    IF W.w.ui_initialized
    THEN [W EXCEPT !.w.view_params["axial"] = get_current_ui_params(W.w)]
    ELSE W

\* Lines 502-504: the controls are stored as the active view's parameters.
StoreParams(W) ==
    IF W.w.ui_initialized
    THEN [W EXCEPT !.w.view_params[W.w.active_view] = get_current_ui_params(W.w)]
    ELSE W

\* Lines 523-525: the view's stored index, cut to the last slice.
LoopIndex(idx, max_s) == IF idx >= max_s /\ max_s > 0 THEN max_s - 1 ELSE idx

\* Lines 528-551: the call for one view and what its axes shows afterwards.
RenderViewShow(W, plane, args, r) ==
    IF r.exc # "" THEN Abort([W EXCEPT !.m = r.self], r.exc)
    ELSE [W EXCEPT !.m = r.self,
                   !.w.axes[plane] = IF r.val # None THEN Shown(r.val, args) ELSE Blank]

\* Lines 528-537: gap is not passed, so calculate_image takes its default 0.
RenderViewCall(W, plane, p, matrix_size, max_s, strict) ==
    IF matrix_size.exc # "" THEN Abort(W, matrix_size.exc)
    ELSE IF max_s.exc # "" THEN Abort(W, max_s.exc)
    ELSE RenderViewShow(W, plane,
             CallArgs(p, ItemText(SeqItems, p.seq_idx), matrix_size.val,
                      LoopIndex(W.w.slice_indices[plane], max_s.val), 0, plane),
             calculate_image(W.m,
                 CallArgs(p, ItemText(SeqItems, p.seq_idx), matrix_size.val,
                          LoopIndex(W.w.slice_indices[plane], max_s.val), 0, plane),
                 strict))

\* Lines 513-552: one pass of the loop over views_config.
RenderView(W, plane, strict) ==
    IF W.exc # "" THEN W
    ELSE RenderViewCall(W, plane, W.w.view_params[plane],
                        LoopMatrixSize(ItemText(ResItems, W.w.view_params[plane].matrix_idx)),
                        get_max_slice(W.m.t1_vol, plane), strict)

\* Lines 567-574: the k-space axes shows the model's k_space.
ShowKSpace(W, r) ==
    IF r.exc # "" THEN Abort([W EXCEPT !.m = r.self], r.exc)
    ELSE [W EXCEPT !.m = r.self, !.w.ax_k = r.self.k_space]

\* Lines 557-565: the active view once more, positionally, with gap 0 and the
\* stored index as it is.
ActiveRenderCall(W, p, matrix_size, strict) ==
    IF matrix_size.exc # "" THEN Abort(W, matrix_size.exc)
    ELSE ShowKSpace(W,
             calculate_image(W.m,
                 CallArgs(p, ItemText(SeqItems, p.seq_idx), matrix_size.val,
                          W.w.slice_indices[W.w.active_view], 0, W.w.active_view),
                 strict))

\* update_image without the final render of the active view: the k-space
\* axes shows what the loop's last render left.
ActiveRenderSkipped(W, strict) ==
    IF W.exc # "" THEN W
    ELSE [W EXCEPT !.w.ax_k = W.m.k_space]

ActiveRender(W, strict) ==
    IF W.exc # "" THEN W
    ELSE ActiveRenderCall(W, W.w.view_params[W.w.active_view],
             ActiveMatrixSize(ItemText(ResItems, W.w.view_params[W.w.active_view].matrix_idx)),
             strict)

\* update_scout (lines 613-621): self.model.t1_vol[:, dims[1] // 2, :]
ScoutExc(t1) ==
    IF t1 = None THEN ""
    ELSE IF Len(t1.shape) < 2 THEN IndexErrorTuple
    ELSE IF Len(t1.shape) # 3 \/ t1.shape[2] = 0 THEN IndexErrorArray
    ELSE ""

\* Lines 578-589: the scout is redrawn for the axial view only.
UpdateScout(W) ==
    IF W.exc # "" THEN W
    ELSE IF W.w.active_view = "axial" /\ ScoutExc(W.m.t1_vol) # ""
    THEN Abort(W, ScoutExc(W.m.t1_vol))
    ELSE W

\* Lines 506-510: the views in the order the loop takes them.
views_config == <<"axial", "sagittal", "coronal">>

\* Lines 513-552: the loop over views_config.
RECURSIVE RenderViews(_, _, _)
RenderViews(W, planes, strict) ==
    IF planes = <<>> THEN W
    ELSE RenderViews(RenderView(W, Head(planes), strict), Tail(planes), strict)

\* update_image()
update_image(W, strict) ==
    IF W.exc # "" THEN W
    ELSE UpdateScout(ActiveRender(RenderViews(StoreParams(W), views_config, strict), strict))

\* spin.setValue(v) for the pair name.  A changed value is signalled to the
\* slider (spin.valueChanged -> slider.setValue) unless signals are blocked;
\* a changed slider then signals spin.setValue, which changes nothing, and
\* update_image.
SliderChanged(W, name, v, strict) ==
    IF W.w.blocked THEN [W EXCEPT !.w.slider[name] = v]
    ELSE update_image([W EXCEPT !.w.slider[name] = v, !.w.spin[name] = v], strict)

\* slider.setValue(v) for the pair name
SetSlider(W, name, v, strict) ==
    IF W.exc # "" THEN W
    ELSE IF BoundPair(name, v) = W.w.slider[name] THEN W
    ELSE SliderChanged(W, name, BoundPair(name, v), strict)

SpinChanged(W, name, v, strict) ==
    IF W.w.blocked THEN [W EXCEPT !.w.spin[name] = v]
    ELSE SetSlider([W EXCEPT !.w.spin[name] = v], name, v, strict)

SetSpin(W, name, v, strict) ==
    IF W.exc # "" THEN W
    ELSE IF BoundPair(name, v) = W.w.spin[name] THEN W
    ELSE SpinChanged(W, name, BoundPair(name, v), strict)

\* Consecutive spin.setValue calls: edits is a sequence of <<name, value>>.
RECURSIVE SetSpins(_, _, _)
SetSpins(W, edits, strict) ==
    IF edits = <<>> THEN W
    ELSE SetSpins(SetSpin(W, Head(edits)[1], Head(edits)[2], strict), Tail(edits), strict)

\* on_sequence_change(idx): the preset TR, TE and FA go into the spin boxes,
\* then update_image.
on_sequence_change(W, idx, strict) ==
    update_image(
        SetSpins(W, << <<"tr", presets[idx + 1].tr>>, <<"te", presets[idx + 1].te>>,
                       <<"fa", presets[idx + 1].fa>> >>, strict),
        strict)

\* combo_seq.setCurrentIndex(i): currentIndexChanged -> on_sequence_change
SetComboSeq(W, i, strict) ==
    IF W.exc # "" \/ i = W.w.combo_seq THEN W
    ELSE IF W.w.blocked THEN [W EXCEPT !.w.combo_seq = i]
    ELSE on_sequence_change([W EXCEPT !.w.combo_seq = i], i, strict)

\* combo_seq.setCurrentText(text): the combo is not editable, so the item
\* with that text, if any, becomes current.
SetComboSeqText(W, text, strict) ==
    IF FindText(SeqItems, text) > -1 THEN SetComboSeq(W, FindText(SeqItems, text), strict)
    ELSE W

\* combo_res.setCurrentIndex(i): the edit line takes the item's text;
\* currentIndexChanged -> update_image
SetComboRes(W, i, strict) ==
    IF W.exc # "" THEN W
    ELSE IF i = W.w.combo_res.index \/ W.w.blocked
    THEN [W EXCEPT !.w.combo_res = [index |-> i, text |-> ItemText(ResItems, i)]]
    ELSE update_image([W EXCEPT !.w.combo_res = [index |-> i, text |-> ItemText(ResItems, i)]],
                      strict)

\* combo_res.setCurrentText(text): the combo is editable, so only the edit
\* line changes; the current index stays.
SetComboResText(W, text) ==
    IF W.exc # "" THEN W ELSE [W EXCEPT !.w.combo_res.text = text]

\* Lines 416-427: range and value of the slice slider, signals blocked.
RefreshSlider(W, max_slices) ==
    IF max_slices.exc # "" THEN Abort(W, max_slices.exc)
    ELSE [W EXCEPT !.w.slider_slice =
             [max |-> IF max_slices.val > 0 THEN max_slices.val - 1 ELSE 0,
              value |-> Bound(LoopIndex(W.w.slice_indices[W.w.active_view], max_slices.val),
                              0, IF max_slices.val > 0 THEN max_slices.val - 1 ELSE 0)]]

\* refresh_slider_for_active_view()
refresh_slider_for_active_view(W) ==
    IF W.exc # "" THEN W
    ELSE RefreshSlider(W, get_max_slice(W.m.t1_vol, W.w.active_view))

\* on_slice_slider_change()
on_slice_slider_change(W, strict) ==
    IF get_max_slice(W.m.t1_vol, W.w.active_view).exc # ""
    THEN Abort([W EXCEPT !.w.slice_indices[W.w.active_view] = W.w.slider_slice.value],
               get_max_slice(W.m.t1_vol, W.w.active_view).exc)
    ELSE update_image([W EXCEPT !.w.slice_indices[W.w.active_view] = W.w.slider_slice.value],
                      strict)

\* slider_slice.setValue(v), signals not blocked
SetSliceSlider(W, v, strict) ==
    IF W.exc # "" \/ Bound(v, 0, W.w.slider_slice.max) = W.w.slider_slice.value THEN W
    ELSE on_slice_slider_change(
             [W EXCEPT !.w.slider_slice.value = Bound(v, 0, W.w.slider_slice.max)], strict)

\* Lines 479-495 of load_params_to_ui: the stored values go into the
\* controls, signals blocked.
LoadValues(W, p, strict) ==
    SetSpins(
        SetComboRes(
            SetSpins(W, << <<"tr", p.tr>>, <<"te", p.te>>, <<"ti", p.ti>>, <<"fa", p.fa>>,
                           <<"etl", p.etl>>, <<"esp", p.esp>>, <<"fov", p.fov>> >>, strict),
            p.matrix_idx, strict),
        << <<"thick", p.thick>>, <<"gap", p.gap>> >>, strict)

\* Lines 492-498: scan_angle, signals restored, slice slider refreshed.
LoadFinish(W, p) ==
    IF W.exc # "" THEN W
    ELSE refresh_slider_for_active_view([W EXCEPT !.w.scan_angle = p.angle, !.w.blocked = FALSE])

\* Lines 476-477 of load_params_to_ui: combo_seq.setCurrentIndex with signals
\* blocked, then on_sequence_change called directly, which ends in
\* update_image.
\* load_params_to_ui(view_name).  p is the record view_params held when the
\* function started: on_sequence_change runs update_image, which may store
\* another record for the active view, but the values loaded are p's.
LoadSequence(W, p, strict) ==
    on_sequence_change(SetComboSeq([W EXCEPT !.w.blocked = TRUE], p.seq_idx, strict),
                       p.seq_idx, strict)

LoadParams(W, p, strict) ==
    LoadFinish(LoadValues(LoadSequence(W, p, strict), p, strict), p)

load_params_to_ui(W, view_name, strict) ==
    IF W.exc # "" THEN W ELSE LoadParams(W, W.w.view_params[view_name], strict)

\* on_canvas_click(event): new_view is the view clicked, "" outside the three.
on_canvas_click(W, new_view, strict) ==
    IF new_view = "" \/ new_view = W.w.active_view THEN W
    ELSE update_image(
             load_params_to_ui(
                 [W EXCEPT !.w.view_params[W.w.active_view] = get_current_ui_params(W.w),
                           !.w.active_view = new_view],
                 new_view, strict),
             strict)

\* on_scout_press(event)
on_scout_press(W, inaxes, button, ydata) ==
    IF W.w.active_view # "axial" THEN W
    ELSE IF inaxes /\ button = 1
    THEN [W EXCEPT !.w.is_dragging = TRUE, !.w.last_mouse_y = ydata]
    ELSE W

\* on_scout_move(event): int(self.slider_slice.value() - dy * 1.5)
on_scout_move(W, inaxes, ydata, strict) ==
    IF W.w.is_dragging /\ inaxes
    THEN SetSliceSlider([W EXCEPT !.w.last_mouse_y = ydata],
                        TruncDiv(2 * W.w.slider_slice.value - 3 * (ydata - W.w.last_mouse_y), 2),
                        strict)
    ELSE W

\* Lines 603-606 of on_scout_scroll.
ScrollAngle(W, angle) ==
    IF W.w.active_view = "axial"
    THEN [W EXCEPT !.w.scan_angle = angle, !.w.view_params["axial"].angle = angle]
    ELSE [W EXCEPT !.w.scan_angle = angle]

\* on_scout_scroll(event)
on_scout_scroll(W, inaxes, up, strict) ==
    IF inaxes
    THEN update_image(ScrollAngle(W, W.w.scan_angle + (IF up THEN 5 ELSE -5)), strict)
    ELSE W

\* on_scout_release(event)
on_scout_release(W) == [W EXCEPT !.w.is_dragging = FALSE]

\* handle_snapshot(): the record put at the head of history_mgr.data.
handle_snapshot(W) ==
    [W EXCEPT !.w.history =
        << [seq |-> ItemText(SeqItems, W.w.combo_seq), tr |-> W.w.spin.tr, te |-> W.w.spin.te,
            ti |-> W.w.spin.ti, fa |-> W.w.spin.fa, etl |-> W.w.spin.etl,
            esp |-> W.w.spin.esp, fov |-> W.w.spin.fov, thick |-> W.w.spin.thick,
            gap |-> W.w.spin.gap, slice |-> W.w.slider_slice.value,
            matrix |-> W.w.combo_res.text, angle |-> W.w.scan_angle] >> \o @]

\* spin.setValue(v) then slider.setValue(v), as on_history_select does for
\* each pair.
SetPair(W, name, v, strict) == SetSlider(SetSpin(W, name, v, strict), name, v, strict)

\* Consecutive pairs: edits is a sequence of <<name, value>>.
RECURSIVE SetPairs(_, _, _)
SetPairs(W, edits, strict) ==
    IF edits = <<>> THEN W
    ELSE SetPairs(SetPair(W, Head(edits)[1], Head(edits)[2], strict), Tail(edits), strict)

\* Lines 716-733 of on_history_select: the nine pairs.
RestorePairs(W, p, strict) ==
    SetPairs(W, << <<"tr", p.tr>>, <<"te", p.te>>, <<"ti", p.ti>>, <<"fa", p.fa>>,
                   <<"etl", p.etl>>, <<"esp", p.esp>>, <<"fov", p.fov>>,
                   <<"thick", p.thick>>, <<"gap", p.gap>> >>, strict)

\* Lines 734-740 of on_history_select.
RestoreRest(W, p, strict) ==
    IF W.exc # "" THEN W
    ELSE update_image(
             refresh_slider_for_active_view(
                 [SetComboResText([W EXCEPT !.w.slice_indices[W.w.active_view] = p.slice],
                                  p.matrix)
                     EXCEPT !.w.scan_angle = p.angle]),
             strict)

RestoreSequence(W, strict) ==
    IF W.exc # "" THEN W ELSE on_sequence_change(W, W.w.combo_seq, strict)

\* on_history_select(), row the record clicked (counted from 0).
\* self.blockSignals(True) blocks the window's own signals, not the controls'.
on_history_select(W, row, strict) ==
    IF row < 0 \/ row >= Len(W.w.history) THEN W
    ELSE RestoreRest(
             RestorePairs(
                 RestoreSequence(SetComboSeqText(W, W.w.history[row + 1].seq, strict), strict),
                 W.w.history[row + 1], strict),
             W.w.history[row + 1], strict)

\* Lines 753-757 of handle_load: the indices go to the middle of each axis.
ResetIndices(W, dims, strict) ==
    IF Len(dims) < 3 THEN Abort(W, IndexErrorTuple)
    ELSE update_image(
             refresh_slider_for_active_view(
                 [W EXCEPT !.w.slice_indices =
                     [axial |-> FloorDiv(dims[3], 2), sagittal |-> FloorDiv(dims[2], 2),
                      coronal |-> FloorDiv(dims[1], 2)]]),
             strict)

\* handle_load(), mat the container of the file chosen.
HandleLoaded(W, r, strict) ==
    IF r.ok
    THEN ResetIndices([W EXCEPT !.m.t1_vol = r.t1, !.m.t2_vol = r.t2, !.m.pd_vol = r.pd],
                      r.t1.shape, strict)
    ELSE [W EXCEPT !.m.t1_vol = r.t1, !.m.t2_vol = r.t2, !.m.pd_vol = r.pd]

handle_load(W, mat, strict) ==
    HandleLoaded(W, load_mat_file(mat, W.m.t1_vol, W.m.t2_vol, W.m.pd_vol), strict)

\* The call both export handlers make (lines 769-771 and 784-786): the
\* sequence, tr, te, ti and fa of the controls and the active view's stored
\* index; etl, esp, fov, thickness, gap, matrix_size and rotation are not
\* passed and take the defaults of calculate_image (line 186-187).
ExportCallArgs(w) ==
    [seq_type |-> ItemText(SeqItems, w.combo_seq), tr |-> w.spin.tr, te |-> w.spin.te,
     ti |-> w.spin.ti, fa |-> w.spin.fa, slice_idx |-> w.slice_indices[w.active_view],
     etl |-> 1, esp |-> 10, fov |-> 240, thickness |-> 1, gap |-> 0, matrix_size |-> 256,
     rotation |-> 0, view_plane |-> w.active_view]

\* What an export handler leaves: the world and the array written to the
\* file (None when no file was written).
Exported(W, written) == [W |-> W, written |-> written]

\* Lines 772-776: export_dicom on the model the render left.
ExportDicomAfter(W, r, writable) ==
    IF r.exc # "" THEN Exported([W EXCEPT !.m = r.self], None)
    ELSE Exported([W EXCEPT !.m = r.self],
                  IF export_dicom(r.self, writable).val[1]
                  THEN r.self.current_image ELSE None)

\* handle_export_dicom(): path is "" when the dialog is cancelled; every
\* exception is caught by the handler's try block.
handle_export_dicom(W, path, writable, strict) ==
    IF path = "" THEN Exported(W, None)
    ELSE ExportDicomAfter(W, calculate_image(W.m, ExportCallArgs(W.w), strict), writable)

\* Line 787: export_kspace on the model the render left; an exception of
\* the render leaves the handler.
ExportKspaceAfter(W, r, writable) ==
    IF r.exc # "" THEN Exported(Abort([W EXCEPT !.m = r.self], r.exc), None)
    ELSE Exported([W EXCEPT !.m = r.self],
                  IF export_kspace(r.self, writable).val THEN r.self.k_space ELSE None)

\* handle_export_kspace()
handle_export_kspace(W, path, writable, strict) ==
    IF path = "" THEN Exported(W, None)
    ELSE ExportKspaceAfter(W, calculate_image(W.m, ExportCallArgs(W.w), strict), writable)

\* MRISimulatorWindow.__init__ up to init_ui: lines 43-69, and the controls
\* as init_ui creates them.  combo_res.setCurrentText("256 * 256") changes
\* the edit line of the editable combo only.
NewWindow ==
    [ui_initialized |-> FALSE, scan_angle |-> 0, is_dragging |-> FALSE, last_mouse_y |-> 0,
     slice_indices |-> [axial |-> 10, sagittal |-> 64, coronal |-> 64],
     active_view |-> "axial",
     view_params |-> [v \in Planes |-> default_params],
     combo_seq |-> 0,
     combo_res |-> [index |-> 0, text |-> ItemText(ResItems, 2)],
     spin |-> PairInitial, slider |-> PairInitial, blocked |-> FALSE,
     slider_slice |-> [max |-> 99, value |-> 0],
     history |-> <<>>,
     axes |-> [v \in Planes |-> Blank], ax_k |-> None,
     aborted |-> "", events |-> 0]

\* Lines 76-82: the indices go to the middle of each axis.
InitIndices(W, dims) ==
    IF W.exc # "" THEN W
    ELSE [W EXCEPT !.w.slice_indices =
             [axial |-> FloorDiv(dims[3], 2), sagittal |-> FloorDiv(dims[2], 2),
              coronal |-> FloorDiv(dims[1], 2)]]

InitShow(W, strict) ==
    IF W.exc # "" THEN W ELSE update_image([W EXCEPT !.w.ui_initialized = TRUE], strict)

\* MRISimulatorWindow(model)
MRISimulatorWindow(m, strict) ==
    InitShow(
        load_params_to_ui(
            refresh_slider_for_active_view(
                InitIndices(on_sequence_change(World(m, NewWindow), 0, strict),
                            get_dimensions(m.t1_vol).val)),
            "axial", strict),
        strict)

\* ------------------------------------------------------------------ inputs
\* The containers offered to load_mat_file.
FileMissing == Container("missing.mat", FALSE, <<>>)

FileOther == Container("other.mat", TRUE, <<Var(<<"i", "m", "g">>, Num(<<2, 2>>, 5))>>)

FileFlat ==
    Container("flat.mat", TRUE,
              <<Var(<<"T", "1">>, Num(<<2, 3, 4>>, 3000)),
                Var(<<"T", "2">>, Num(<<2, 3, 4>>, 2000)),
                Var(<<"P", "D">>, Num(<<2, 3, 4>>, 1))>>)

FileSeconds ==
    Container("seconds.mat", TRUE,
              <<Var(<<"T", "2", "_", "M", "A", "P">>, Num(<<3, 2, 2>>, 2)),
                Var(<<"t", "1", "_", "m", "a", "p">>, Num(<<3, 2, 2>>, 3))>>)

FileMismatch ==
    Container("mismatch.mat", TRUE,
              <<Var(<<"t", "1">>, Num(<<2, 3, 2>>, 900)),
                Var(<<"t", "2">>, Num(<<2, 1, 2>>, 100))>>)

FileVObj ==
    Container("vobj.mat", TRUE,
              <<Var(<<"T", "1">>, Num(<<4, 4, 4>>, 700)),
                Var(<<"T", "2">>, Num(<<4, 4, 4>>, 70)),
                StructVar(kVObj, (kT1 :> Num(<<3, 3, 2>>, 1200)) @@ (kT2 :> Num(<<3, 3, 2>>, 90))
                                 @@ (kRho :> Num(<<3, 3, 2>>, 1)) @@ (kPD :> Num(<<3, 3, 2>>, 2)))>>)

FileVObjBare ==
    Container("vobj_bare.mat", TRUE,
              <<StructVar(kVObj, (kT1 :> Num(<<2, 3, 3>>, 1100)) @@ (kT2 :> Num(<<2, 3, 3>>, 80)))>>)

FileVObjFallback ==
    Container("vobj_fallback.mat", TRUE,
              <<StructVar(kVObj, (kT1 :> Num(<<3, 3, 2>>, 1200))),
                Var(<<"T", "1", "_", "M", "a", "p">>, Num(<<2, 2, 3>>, 900)),
                Var(<<"t", "2">>, Num(<<2, 2, 3>>, 90)),
                Var(<<"R", "H", "O">>, Num(<<2, 2, 3>>, 1))>>)

FileVObjPartial ==
    Container("vobj_partial.mat", TRUE, <<StructVar(kVObj, (kT1 :> Num(<<3, 3, 2>>, 1200)))>>)

FileBadT2 ==
    Container("bad_t2.mat", TRUE,
              <<Var(<<"T", "1">>, Num(<<2, 2, 2>>, 800)), Var(<<"T", "2">>, Bad)>>)

FileEmpty ==
    Container("empty.mat", TRUE,
              <<Var(<<"T", "1">>, Num(<<0, 2, 2>>, 0)), Var(<<"T", "2">>, Num(<<0, 2, 2>>, 0))>>)

FilePlanar ==
    Container("planar.mat", TRUE,
              <<Var(<<"T", "1">>, Num(<<2, 2>>, 800)), Var(<<"T", "2">>, Num(<<2, 2>>, 80))>>)

Files == {FileMissing, FileOther, FileFlat, FileSeconds, FileMismatch, FileVObj,
          FileVObjBare, FileVObjFallback, FileVObjPartial, FileBadT2, FileEmpty, FilePlanar}

\* Volumes for the slice-selection renders: a regular one and one whose T2
\* is narrower than its T1.
SliceFiles == {FileFlat, FileMismatch}

\* Volumes for the geometry renders: a non-square one and one without voxels.
GeometryFiles == {FileSeconds, FileEmpty}

\* Volumes for the sequence renders: a regular one and one with two axes only.
SequenceFiles == {FileFlat, FilePlanar}

\* A container of each kind of outcome: all three volumes replaced, only
\* t1_vol replaced, none replaced.
FewFiles == {FileMismatch, FileVObjPartial, FileMissing}

sT1W == <<"T", "1">>
SeqNames == {sT1W, sFLAIR, sEPI, sFSE}

\* Names for the dispatch: the four above, the empty name, a lower-case
\* spelling, and names that contain two of the keywords.
sLowerFlair == <<"f", "l", "a", "i", "r">>
sEpiFlair == sEPI \o <<" ">> \o sFLAIR
sFseEpi == sFSE \o <<" ">> \o sEPI
DispatchNames == SeqNames \cup {<<>>, sLowerFlair, sEpiFlair, sFseEpi}

BaseArgs ==
    [seq_type |-> sT1W, tr |-> 500, te |-> 20, ti |-> 0, fa |-> 90, slice_idx |-> 1,
     etl |-> 1, esp |-> 10, fov |-> 240, thickness |-> 1, gap |-> 0, matrix_size |-> 4,
     rotation |-> 0, view_plane |-> "axial"]

\* Every plane with every slice index and thickness.
SliceArgs ==
    {[BaseArgs EXCEPT !.view_plane = p, !.slice_idx = i, !.thickness = t] :
        p \in Planes, i \in -1..MaxSliceArg, t \in {0, 1, MaxThick}}

\* Every sequence family, with and without an echo train.
SequenceArgs ==
    {[BaseArgs EXCEPT !.seq_type = q, !.etl = e, !.ti = 2500, !.view_plane = p] :
        q \in DispatchNames, e \in {1, 4}, p \in {"axial", "sagittal"}}

\* Every plane zoomed in, at scale and zoomed out; every plane rotated, with
\* a thick slice, a gap and an echo train, and with no thickness at all; a
\* field of view of 0 and a matrix size of 0.
GeometryArgs ==
    {[BaseArgs EXCEPT !.fov = g[1], !.matrix_size = g[2], !.view_plane = p] :
        g \in {<<120, 4>>, <<240, 256>>, <<300, 3>>, <<240, 123>>}, p \in Planes}
    \cup
    {[BaseArgs EXCEPT !.seq_type = sFSE, !.etl = 4, !.rotation = 15,
                      !.thickness = MaxThick, !.gap = 1, !.view_plane = p] : p \in Planes}
    \cup
    {[BaseArgs EXCEPT !.seq_type = sFLAIR, !.ti = 2500, !.thickness = 0,
                      !.view_plane = p] : p \in Planes}
    \cup
    {[BaseArgs EXCEPT !.fov = 0], [BaseArgs EXCEPT !.matrix_size = 0],
     [BaseArgs EXCEPT !.matrix_size = 0, !.view_plane = "sagittal"]}

\* One render per plane and one per sequence family.
FewArgs ==
    {[BaseArgs EXCEPT !.view_plane = p] : p \in Planes}
    \cup {[BaseArgs EXCEPT !.seq_type = q, !.etl = 4] : q \in SeqNames}

\* The volume and the renders whose image is exported: spin echo at 90 and at
\* 270 degrees, and FLAIR.
ExportFiles == {FileFlat}
ExportArgs ==
    {BaseArgs, [BaseArgs EXCEPT !.fa = 270],
     [BaseArgs EXCEPT !.seq_type = sFLAIR, !.ti = 2500]}

\* The edits offered to the window: values typed into spin boxes, a slider
\* dragged, sequences and a matrix size picked, slice slider positions (one
\* beyond every extent), a scout drag, and the files offered to handle_load.
SpinEdits == {<<"gap", 5>>, <<"thick", 3>>, <<"fov", 240>>}
SliderEdits == {<<"tr", 4000>>}
SeqChoices == {2, 5}
ResChoices == {0}
SliceChoices == {0, 70}
ScoutYs == {2}
WindowFiles == {FileFlat, FileMissing}

\* ------------------------------------------------------------------- state
VARIABLES
    t1_vol, t2_vol, pd_vol,     \* self.t1_vol, self.t2_vol, self.pd_vol
    current_image, k_space,     \* self.current_image, self.k_space
    ret,                        \* the last call: its name, arguments and outcome
    strict,                     \* this build's scipy.ndimage rejects empty arrays
    win                         \* the MRISimulatorWindow, None before it is made

vars == <<t1_vol, t2_vol, pd_vol, current_image, k_space, ret, strict, win>>
vols == <<t1_vol, t2_vol, pd_vol>>
cache == <<current_image, k_space>>

self == Self(t1_vol, t2_vol, pd_vol, current_image, k_space)

Update(s) ==
    /\ t1_vol' = s.t1_vol
    /\ t2_vol' = s.t2_vol
    /\ pd_vol' = s.pd_vol
    /\ current_image' = s.current_image
    /\ k_space' = s.k_space

\* A load_default_phantom that assigns nothing.
load_default_phantom_skipped(s) == Return(s, None)

\* load_default_phantom()
load_default_phantom(s) ==
    LET ph == generate_synthetic_phantom
    IN  Return([s EXCEPT !.t1_vol = ph.t1, !.t2_vol = ph.t2, !.pd_vol = ph.pd], None)

\* MRISimulatorModel(): lines 116-125.
Init ==
    LET made == load_default_phantom(Self(None, None, None, None, None)).self
    IN  /\ t1_vol = made.t1_vol
        /\ t2_vol = made.t2_vol
        /\ pd_vol = made.pd_vol
        /\ current_image = made.current_image
        /\ k_space = made.k_space
        /\ ret = [op |-> "__init__", exc |-> "", val |-> None]
        /\ strict \in BOOLEAN
        /\ win = None

\* ----------------------------------------------------------------- actions
LoadDefaultPhantom ==
    LET r == load_default_phantom(self)
    IN  /\ Update(r.self)
        /\ ret' = [op |-> "load_default_phantom", exc |-> r.exc, val |-> r.val]
        /\ UNCHANGED <<strict, win>>

LoadMatFile(files) ==
    \E mat \in files :
        LET r == load_mat_file(mat, t1_vol, t2_vol, pd_vol)
        IN  /\ Update([self EXCEPT !.t1_vol = r.t1, !.t2_vol = r.t2, !.pd_vol = r.pd])
            /\ ret' = [op |-> "load_mat_file", exc |-> r.raised, val |-> <<r.ok, r.msg>>,
                       fname |-> mat.id, found |-> r.found, caught |-> r.exc,
                       assigned |-> r.assigned]
            /\ UNCHANGED <<strict, win>>

GetDimensions ==
    LET r == get_dimensions(t1_vol)
    IN  /\ ret' = [op |-> "get_dimensions", exc |-> r.exc, val |-> r.val]
        /\ UNCHANGED <<vols, cache, strict, win>>

GetMaxSlice ==
    \E plane \in Planes :
        LET r == get_max_slice(t1_vol, plane)
        IN  /\ ret' = [op |-> "get_max_slice", exc |-> r.exc, val |-> r.val, plane |-> plane]
            /\ UNCHANGED <<vols, cache, strict, win>>

CalculateImage(args) ==
    \E a \in args :
        LET r == calculate_image(self, a, strict)
        IN  /\ Update(r.self)
            /\ ret' = [op |-> "calculate_image", exc |-> r.exc, val |-> r.val, args |-> a]
            /\ UNCHANGED <<strict, win>>

\* crop_or_pad called on the cached image.
CropOrPad ==
    \E target_size \in {3, 4, 5} :
        /\ current_image # None
        /\ ret' = [op |-> "crop_or_pad", exc |-> "",
                   val |-> crop_or_pad(current_image, target_size), size |-> target_size]
        /\ UNCHANGED <<vols, cache, strict, win>>

\* crop_or_pad called on an array of any small shape, then on its own result.
CropOrPadInput ==
    \E h \in 0..MaxExtent, w \in 0..MaxExtent, target_size \in 1..MaxTarget :
        /\ ret' = [op |-> "crop_or_pad", exc |-> "", size |-> target_size,
                   img |-> Image(<<h, w>>, "input"),
                   val |-> crop_or_pad(Image(<<h, w>>, "input"), target_size),
                   again |-> crop_or_pad(crop_or_pad(Image(<<h, w>>, "input"), target_size),
                                         target_size),
                   rows |-> AxisPixels(h, CropOrPadAxis(h, target_size)),
                   cols |-> AxisPixels(w, CropOrPadAxis(w, target_size))]
        /\ UNCHANGED <<vols, cache, strict, win>>

ExportKspace ==
    \E writable \in BOOLEAN :
        LET r == export_kspace(self, writable)
        IN  /\ Update(r.self)
            /\ ret' = [op |-> "export_kspace", exc |-> r.exc, val |-> r.val]
            /\ UNCHANGED <<strict, win>>

ExportDicom ==
    \E writable \in BOOLEAN :
        LET r == export_dicom(self, writable)
        IN  /\ Update(r.self)
            /\ ret' = [op |-> "export_dicom", exc |-> r.exc, val |-> r.val]
            /\ UNCHANGED <<strict, win>>

\* The importer and the dimension queries, over every container.
Next ==
    \/ LoadDefaultPhantom
    \/ LoadMatFile(Files)
    \/ GetDimensions
    \/ GetMaxSlice
Spec == Init /\ [][Next]_vars

\* Slice selection: every plane, slice index and thickness.
NextSlices ==
    \/ LoadDefaultPhantom
    \/ LoadMatFile(SliceFiles)
    \/ CalculateImage(SliceArgs)
SpecSlices == Init /\ [][NextSlices]_vars

\* Geometry: every field of view, matrix size, rotation and gap.
NextGeometry ==
    \/ LoadDefaultPhantom
    \/ LoadMatFile(GeometryFiles)
    \/ CalculateImage(GeometryArgs)
SpecGeometry == Init /\ [][NextGeometry]_vars

\* Sequences: every sequence family, with and without an echo train.
NextSequences ==
    \/ LoadDefaultPhantom
    \/ LoadMatFile(SequenceFiles)
    \/ CalculateImage(SequenceArgs)
SpecSequences == Init /\ [][NextSequences]_vars

\* Every operation of the class, over a few containers and renders.
NextAll ==
    \/ LoadDefaultPhantom
    \/ LoadMatFile(FewFiles)
    \/ GetDimensions
    \/ GetMaxSlice
    \/ CalculateImage(FewArgs)
    \/ CropOrPad
    \/ ExportKspace
    \/ ExportDicom
SpecAll == Init /\ [][NextAll]_vars

\* export_dicom with the pixel data it writes; pixels: the cached image's
\* values, wraps: how this build converts out-of-range floats.
ExportDicomData ==
    \E writable \in BOOLEAN, wraps \in BOOLEAN, pixels \in PixelArrays(current_image) :
        /\ Update(export_dicom(self, writable).self)
        /\ ret' = [op |-> "export_dicom", exc |-> export_dicom(self, writable).exc,
                   val |-> export_dicom(self, writable).val, pixels |-> pixels,
                   data |-> IF export_dicom(self, writable).val[1]
                            THEN PixelData(pixels, wraps) ELSE None]
        /\ UNCHANGED <<strict, win>>

\* Renders of a volume, and the two exports.
NextExport ==
    \/ LoadMatFile(ExportFiles)
    \/ CalculateImage(ExportArgs)
    \/ ExportKspace
    \/ ExportDicomData
SpecExport == Init /\ [][NextExport]_vars

\* crop_or_pad alone, over every small shape and target size.
NextCrop == CropOrPadInput
SpecCrop == Init /\ [][NextCrop]_vars

\* ----------------------------------------------------------- window events
\* The model and the window as one world.
world == World(self, win)

\* The state after a handler: the model's attributes, the window's, and the
\* handler's name and exception as the last call.
Handled(op, W) ==
    /\ Update(W.m)
    /\ win' = [W.w EXCEPT !.aborted = W.exc, !.events = win.events + 1]
    /\ ret' = [op |-> op, exc |-> W.exc, val |-> None]
    /\ UNCHANGED strict

\* The window is up, its event loop runs, and fewer than MaxEvents events
\* were handled.
Listening == win # None /\ win.aborted = "" /\ win.events < MaxEvents

\* main.py: MRISimulatorModel(), then MRISimulatorWindow(model).
InitWindow ==
    /\ strict \in BOOLEAN
    /\ \E W \in {MRISimulatorWindow(load_default_phantom(Self(None, None, None, None, None)).self,
                                   strict)} :
           /\ t1_vol = W.m.t1_vol
           /\ t2_vol = W.m.t2_vol
           /\ pd_vol = W.m.pd_vol
           /\ current_image = W.m.current_image
           /\ k_space = W.m.k_space
           /\ win = [W.w EXCEPT !.aborted = W.exc]
           /\ ret = [op |-> "MRISimulatorWindow", exc |-> W.exc, val |-> None]

\* The user types a value into a spin box.
EditSpin ==
    \E e \in SpinEdits :
        /\ Listening
        /\ Handled("spin.setValue", SetSpin(world, e[1], e[2], strict))

\* The user drags a parameter slider.
EditSlider ==
    \E e \in SliderEdits :
        /\ Listening
        /\ Handled("slider.setValue", SetSlider(world, e[1], e[2], strict))

\* The user picks a sequence.
ChangeSequence ==
    \E i \in SeqChoices :
        /\ Listening
        /\ Handled("on_sequence_change", SetComboSeq(world, i, strict))

\* The user picks a matrix size.
ChangeMatrix ==
    \E i \in ResChoices :
        /\ Listening
        /\ Handled("combo_res.setCurrentIndex", SetComboRes(world, i, strict))

\* The user drags the slice slider.
MoveSliceSlider ==
    \E v \in SliceChoices :
        /\ Listening
        /\ Handled("on_slice_slider_change", SetSliceSlider(world, v, strict))

\* The user clicks the canvas, on a view or beside them.
ClickCanvas ==
    \E v \in Planes \cup {""} :
        /\ Listening
        /\ Handled("on_canvas_click", on_canvas_click(world, v, strict))

ScoutPress ==
    /\ Listening
    /\ Handled("on_scout_press", on_scout_press(world, TRUE, 1, 0))

ScoutMove ==
    \E y \in ScoutYs :
        /\ Listening
        /\ Handled("on_scout_move", on_scout_move(world, TRUE, y, strict))

ScoutScroll ==
    \E up \in BOOLEAN :
        /\ Listening
        /\ Abs(win.scan_angle + (IF up THEN 5 ELSE -5)) <= MaxAngle
        /\ Handled("on_scout_scroll", on_scout_scroll(world, TRUE, up, strict))

ScoutRelease ==
    /\ Listening
    /\ Handled("on_scout_release", on_scout_release(world))

Snapshot ==
    /\ Listening
    /\ Len(win.history) < MaxHistory
    /\ Handled("handle_snapshot", handle_snapshot(world))

SelectHistory ==
    \E row \in 0..(MaxHistory - 1) :
        /\ Listening
        /\ row < Len(win.history)
        /\ Handled("on_history_select", on_history_select(world, row, strict))

HandleLoad ==
    \E mat \in WindowFiles :
        /\ Listening
        /\ Handled("handle_load", handle_load(world, mat, strict))

\* The window: every event a user can raise.
NextWindow ==
    \/ EditSpin
    \/ EditSlider
    \/ ChangeSequence
    \/ ChangeMatrix
    \/ MoveSliceSlider
    \/ ClickCanvas
    \/ ScoutPress
    \/ ScoutMove
    \/ ScoutScroll
    \/ ScoutRelease
    \/ Snapshot
    \/ SelectHistory
    \/ HandleLoad
SpecWindow == InitWindow /\ [][NextWindow]_vars

\* The paths the save dialogs return: cancelled, or a file name.
ExportPaths == {"", "out"}

\* The state after an export handler: as Handled, with the array written.
HandledExport(op, E) ==
    /\ Update(E.W.m)
    /\ win' = [E.W.w EXCEPT !.aborted = E.W.exc, !.events = win.events + 1]
    /\ ret' = [op |-> op, exc |-> E.W.exc, val |-> None, written |-> E.written]
    /\ UNCHANGED strict

HandleExportDicom ==
    \E path \in ExportPaths, writable \in BOOLEAN :
        /\ Listening
        /\ HandledExport("handle_export_dicom",
                         handle_export_dicom(world, path, writable, strict))

HandleExportKspace ==
    \E path \in ExportPaths, writable \in BOOLEAN :
        /\ Listening
        /\ HandledExport("handle_export_kspace",
                         handle_export_kspace(world, path, writable, strict))

\* The window with its export buttons: plane switches, parameter edits and
\* the two exports.
NextWindowExport ==
    \/ ClickCanvas
    \/ EditSpin
    \/ HandleExportDicom
    \/ HandleExportKspace
SpecWindowExport == InitWindow /\ [][NextWindowExport]_vars

\* ============================================================== properties
AllThree == {"t1_vol", "t2_vol", "pd_vol"}

\* C1: after construction and any sequence of load_default_phantom and
\* load_mat_file calls, t1_vol, t2_vol and pd_vol have the same shape, and a
\* load_mat_file call assigns either all three volumes or none of them.
C1_VolumesAlignedAndAtomic ==
    /\ t1_vol.shape = t2_vol.shape
    /\ t2_vol.shape = pd_vol.shape
    /\ (ret.op = "load_mat_file" => ret.assigned \in {{}, AllThree})

\* C2: a load_mat_file call that returns False leaves t1_vol, t2_vol and
\* pd_vol exactly as they were before the call.
C2_FailedLoadKeepsVolumes ==
    [][(ret'.op = "load_mat_file" /\ ret'.val[1] = FALSE) => UNCHANGED vols]_vars

\* C3 as stated: load_mat_file never raises and returns (True, "Loaded")
\* whenever a schema was recognized (found); when none was, it returns
\* (False, "No T1/T2") if nothing was raised and (False, text of the
\* exception) otherwise.
C3_LoadedWheneverRecognized ==
    ret.op = "load_mat_file" =>
        /\ ret.exc = ""
        /\ (ret.found => ret.val = <<TRUE, "Loaded">>)
        /\ (~ret.found /\ ret.caught = "" => ret.val = <<FALSE, "No T1/T2">>)
        /\ (~ret.found /\ ret.caught # "" => ret.val = <<FALSE, ret.caught>>)

\* C3, amended: load_mat_file never raises and returns a pair; the pair is
\* (False, text of the exception) exactly when loadmat, a flat-schema
\* conversion or the clean-up of a recognized schema raised; otherwise it is
\* (True, "Loaded") when a schema was recognized and (False, "No T1/T2")
\* when none was.
C3_LoadOutcome ==
    ret.op = "load_mat_file" =>
        /\ ret.exc = ""
        /\ ret.val \in (BOOLEAN \X STRING)
        /\ (ret.caught # "" => ret.val = <<FALSE, ret.caught>>)
        /\ (ret.caught = "" /\ ret.found => ret.val = <<TRUE, "Loaded">>)
        /\ (ret.caught = "" /\ ~ret.found => ret.val = <<FALSE, "No T1/T2">>)

\* A recognized schema whose clean-up raised: reported as a failure.
C3_RecognizedButFailed ==
    /\ ret.op = "load_mat_file"
    /\ ret.found
    /\ ret.caught = ZeroSizeMaxError
    /\ ret.val = <<FALSE, ZeroSizeMaxError>>

\* C4: calculate_image never raises, whatever its arguments and whatever
\* volume is installed; with no volume it returns None and leaves the cache.
C4_RenderNeverRaises ==
    ret.op = "calculate_image" =>
        /\ ret.exc = ""
        /\ (ret.val = None => t1_vol = None)

\* C5: every image calculate_image returns has shape
\* matrix_size x matrix_size.
C5_ImageIsSquare ==
    (ret.op = "calculate_image" /\ ret.exc = "" /\ ret.val # None) =>
        ret.val.shape = <<ret.args.matrix_size, ret.args.matrix_size>>

\* A returned image of a non-axial plane, rotated, cut from a volume whose
\* slab is not square, and one zoomed out of a square slab.
C5_RotatedSagittalReturned ==
    /\ ret.op = "calculate_image"
    /\ ret.exc = ""
    /\ ret.args.view_plane = "sagittal"
    /\ ret.args.rotation = 15
    /\ ret.val.signal.t1_s.shape[1] # ret.val.signal.t1_s.shape[2]
    /\ ret.val.rot90
    /\ ret.val.shape = <<4, 4>>

\* C6: current_image and k_space are both absent, or k_space is the
\* transform of current_image and has its shape.
C6_CacheCoherent ==
    \/ current_image = None /\ k_space = None
    \/ /\ current_image # None
       /\ k_space # None
       /\ k_space.of = current_image
       /\ k_space.shape = current_image.shape

\* C7: for every plane and slice index, calculate_image reads the slice at
\* max(0, min(slice_idx, extent - 1)) along the plane's axis of each volume
\* and raises no IndexError.
C7_IndexClampedNeverRejected ==
    (ret.op = "calculate_image" /\ Len(t1_vol.shape) = 3) =>
        /\ ret.exc # IndexErrorArray
        /\ ret.exc = "" =>
            LET z == Max2(0, Min2(ret.args.slice_idx,
                                  t1_vol.shape[CASE ret.args.view_plane = "coronal" -> 1
                                                 [] ret.args.view_plane = "sagittal" -> 2
                                                 [] OTHER -> 3] - 1))
                sig == ret.val.signal
            IN  \A s \in {sig.t1_s, sig.t2_s, sig.pd_s} :
                    /\ s.axis = CASE ret.args.view_plane = "coronal" -> 0
                                  [] ret.args.view_plane = "sagittal" -> 1
                                  [] OTHER -> 2
                    /\ s.lo <= z
                    /\ z < s.hi

\* C8: get_dimensions returns t1_vol's shape and get_max_slice returns D0 for
\* 'coronal', D1 for 'sagittal' and D2 for 'axial' of a three-axis volume
\* (128, 128 and 20 on the default phantom), which is the extent
\* calculate_image clamps against; without a volume they return (0, 0, 0)
\* and 0.
C8_DimensionQueries ==
    /\ get_dimensions(None) = [exc |-> "", val |-> <<0, 0, 0>>]
    /\ \A p \in Planes : get_max_slice(None, p) = [exc |-> "", val |-> 0]
    /\ (ret.op = "get_dimensions" => ret.exc = "" /\ ret.val = t1_vol.shape)
    /\ (ret.op = "get_max_slice" /\ Len(t1_vol.shape) = 3) =>
        /\ ret.exc = ""
        /\ ret.val = t1_vol.shape[CASE ret.plane = "coronal" -> 1
                                    [] ret.plane = "sagittal" -> 2
                                    [] ret.plane = "axial" -> 3]
        /\ ret.val = RenderMaxSlice(t1_vol.shape, ret.plane).val
        /\ t1_vol.origin[1] = "phantom" =>
            ret.val = CASE ret.plane = "coronal" -> 128
                        [] ret.plane = "sagittal" -> 128
                        [] ret.plane = "axial" -> 20

\* A sagittal query on a volume whose three extents differ.
C8_SagittalOfUnevenVolume ==
    /\ ret.op = "get_max_slice"
    /\ ret.plane = "sagittal"
    /\ t1_vol.shape = <<2, 3, 4>>
    /\ ret.val = 3

\* C9: what a returning calculate_image returns and caches is what the same
\* call returns and caches on the same volumes with an empty cache: it does
\* not depend on the cache the earlier renders left.
C9_RenderIgnoresEarlierCache ==
    [][(ret'.op = "calculate_image" /\ ret'.exc = "") =>
        /\ UNCHANGED vols
        /\ ret'.val = calculate_image(Self(t1_vol, t2_vol, pd_vol, None, None),
                                      ret'.args, strict).val
        /\ current_image' = ret'.val
        /\ k_space' = calculate_image(Self(t1_vol, t2_vol, pd_vol, None, None),
                                      ret'.args, strict).self.k_space]_vars

\* A returning render of one plane over the cache another render left.
C9_RenderOverOtherCache ==
    /\ ret.op = "calculate_image"
    /\ ret.exc = ""
    /\ ret.args.view_plane = "coronal"
    /\ ret.args.rotation = 15
    /\ current_image = ret.val
    /\ k_space.of = ret.val

\* C10: every operation other than load_mat_file and load_default_phantom
\* leaves t1_vol, t2_vol and pd_vol as they were.
C10_OnlyLoadsChangeVolumes ==
    [][ret'.op \notin {"load_mat_file", "load_default_phantom"} => UNCHANGED vols]_vars

\* A FLAIR render returned on the default phantom, which is still as
\* generated.
C10_RenderedOnPhantom ==
    /\ ret.op = "calculate_image"
    /\ ret.exc = ""
    /\ Contains(ret.args.seq_type, sFLAIR)
    /\ t1_vol = generate_synthetic_phantom.t1
    /\ t2_vol = generate_synthetic_phantom.t2
    /\ pd_vol = generate_synthetic_phantom.pd

\* The handlers of the edits a user makes without switching plane.
EditOps ==
    {"spin.setValue", "slider.setValue", "on_sequence_change", "combo_res.setCurrentIndex",
     "on_scout_scroll", "on_slice_slider_change", "on_history_select"}

\* C11: an edit made while a plane is active (parameter spin or slider change,
\* sequence change, matrix change, scout scroll, slice slider move, history
\* select) leaves view_params and slice_indices of the two other planes as
\* they were.
C11_EditsTouchActiveViewOnly ==
    [][(win # None /\ win' # None /\ win'.events # win.events /\ ret'.op \in EditOps)
        => \A p \in Planes \ {win.active_view} :
               /\ win'.view_params[p] = win.view_params[p]
               /\ win'.slice_indices[p] = win.slice_indices[p]]_vars

\* C11 happens: with the sagittal view active a scout scroll has changed the
\* sagittal angle, and the axial record still holds its own.
C11_ScrolledOnSagittal ==
    /\ win # None
    /\ ret.op = "on_scout_scroll"
    /\ win.active_view = "sagittal"
    /\ win.view_params["sagittal"].angle # 0
    /\ win.view_params["axial"].angle = 0

\* What C12 says of one axis of extent n for target size: a longer axis keeps
\* the pixels from floor((n - size) / 2) on, a shorter one has
\* floor((size - n) / 2) zeros before its pixels and zeros after up to size.
CenteredAxis(n, size) ==
    IF n >= size
    THEN [i \in 1..size |-> FloorDiv(n - size, 2) + i]
    ELSE [i \in 1..size |->
             IF i <= FloorDiv(size - n, 2) \/ i > FloorDiv(size - n, 2) + n
             THEN 0 ELSE i - FloorDiv(size - n, 2)]

\* C12: crop_or_pad(img, size) has shape size x size for every h, w >= 0 and
\* size >= 1, is img itself when img is already size x size, gives itself
\* when applied again, and each axis is the centered window or the
\* zero-padding with floor(missing / 2) before and the rest after.
C12_CropOrPadShapeAndCentering ==
    (ret.op = "crop_or_pad" /\ "again" \in DOMAIN ret)
    => /\ ret.val.shape = <<ret.size, ret.size>>
       /\ (ret.img.shape = <<ret.size, ret.size>> => ret.val = ret.img)
       /\ ret.again = ret.val
       /\ ret.rows = CenteredAxis(ret.img.shape[1], ret.size)
       /\ ret.cols = CenteredAxis(ret.img.shape[2], ret.size)

\* C12 happens: an array with more rows than the target and no columns was
\* cropped along one axis and padded along the other.
C12_CroppedRowsPaddedColumns ==
    /\ ret.op = "crop_or_pad"
    /\ "again" \in DOMAIN ret
    /\ ret.img.shape = <<MaxExtent, 0>>
    /\ ret.size = 3
    /\ ret.val.shape = <<3, 3>>

\* The container load_mat_file was called with.
FileOf(fname) == CHOOSE f \in Files : f.id = fname

\* A structured container with T1 and T2 and neither Rho nor PD.
BareVObj(mat) ==
    /\ HasVObj(mat)
    /\ FieldReadable(GetVObj(mat), kT1)
    /\ FieldReadable(GetVObj(mat), kT2)
    /\ GetVObj(mat).names \cap {kRho, kPD} = {}

\* A flat container with arrays under a T1 and a T2 alias and no PD alias.
BareFlat(mat) ==
    /\ ~HasVObj(mat)
    /\ FirstKey(mat, T1Aliases) # 0
    /\ FirstKey(mat, T2Aliases) # 0
    /\ FirstKey(mat, PDAliases) = 0
    /\ Convertible(mat, FirstKey(mat, T1Aliases))
    /\ Convertible(mat, FirstKey(mat, T2Aliases))

T1T2WithoutPD(mat) == mat.readable /\ (BareVObj(mat) \/ BareFlat(mat))

\* pd is np.ones_like of an array of t1's shape, not rescaled.
IsOnesOf(pd, t1) ==
    /\ pd # None
    /\ pd.origin = <<"ones_like", <<>>>>
    /\ pd.max = 1
    /\ pd.gain = 1
    /\ pd.shape = t1.shape

\* C13 as stated: a container with T1 and T2 under recognized names and no
\* PD-like entry, flat or 'VObj', is imported successfully with pd_vol all
\* ones of T1's shape.
C13_OnesAndLoadedWithoutPD ==
    (ret.op = "load_mat_file" /\ T1T2WithoutPD(FileOf(ret.fname)))
    => /\ ret.val = <<TRUE, "Loaded">>
       /\ IsOnesOf(pd_vol, t1_vol)

\* C13, amended: for such a container pd_vol becomes all ones of T1's shape;
\* the import succeeds when T1 has at least one element and returns
\* (False, text of the exception) when T1 has none.
C13_OnesWithoutPD ==
    (ret.op = "load_mat_file" /\ T1T2WithoutPD(FileOf(ret.fname)))
    => /\ IsOnesOf(pd_vol, t1_vol)
       /\ (Size(t1_vol.shape) > 0 => ret.val = <<TRUE, "Loaded">>)
       /\ (Size(t1_vol.shape) = 0 => ret.val = <<FALSE, ZeroSizeMaxError>>)

\* C13 happens: a 'VObj' container without Rho and PD was imported and
\* pd_vol is the array of ones.
C13_BareVObjLoaded ==
    /\ ret.op = "load_mat_file"
    /\ ret.fname = "vobj_bare.mat"
    /\ ret.val = <<TRUE, "Loaded">>
    /\ IsOnesOf(pd_vol, t1_vol)
    /\ t1_vol.shape = <<2, 3, 3>>

\* C14: the pixel data export_dicom writes is the cached image scaled
\* linearly by its maximum to 0..65535, the maximum pixel written as 65535
\* and every pixel within 0..65535, and is all zero when the maximum is 0;
\* with no cached image export_dicom returns (False, "No Image") and with no
\* cached spectrum export_kspace returns False, without raising or writing.
C14_ExportScalesToUint16 ==
    /\ (ret.op = "export_dicom" /\ current_image = None)
           => (ret.val = <<FALSE, "No Image">> /\ ret.exc = "" /\ ret.data = None)
    /\ (ret.op = "export_kspace" /\ k_space = None) => (ret.val = FALSE /\ ret.exc = "")
    /\ (ret.op = "export_dicom" /\ ret.data # None)
           => /\ \A i \in DOMAIN ret.data : ret.data[i] \in 0..Uint16Max
              /\ MaxOf(ret.pixels) > 0
                     => \A i \in DOMAIN ret.data :
                            /\ ret.data[i] = TruncDiv(ret.pixels[i] * Uint16Max, MaxOf(ret.pixels))
                            /\ (ret.pixels[i] = MaxOf(ret.pixels) => ret.data[i] = Uint16Max)
              /\ MaxOf(ret.pixels) = 0 => \A i \in DOMAIN ret.data : ret.data[i] = 0

\* The family C15 gives a sequence name: the first of FLAIR, EPI, FSE that
\* the name contains, else spin echo.
Family(name) ==
    IF Contains(name, sFLAIR) THEN "FLAIR"
    ELSE IF Contains(name, sEPI) THEN "EPI"
    ELSE IF Contains(name, sFSE) THEN "FSE"
    ELSE "SE"

\* The image calculate_image returns for the arguments a under the name
\* seq_type, on the volumes installed.
ImageNamed(a, seq_type) == calculate_image(self, [a EXCEPT !.seq_type = seq_type], strict).val

\* C15: the signal equation follows the first of "FLAIR", "EPI", "FSE" found
\* in the name by a case-sensitive substring test, else spin echo; a name
\* with none of the three (empty and lower-case included) gives the
\* spin-echo image, and so does FSE with etl <= 1.
C15_DispatchByPriority ==
    (ret.op = "calculate_image" /\ ret.exc = "" /\ ret.val # None) =>
        /\ Family(ret.args.seq_type) = "FLAIR"
               => (ret.val.signal.eq = "inversion_recovery" /\ ret.val.signal.ti = ret.args.ti)
        /\ Family(ret.args.seq_type) = "EPI"
               => (ret.val.signal.eq = "steady_state" /\ ret.val.signal.decay_esp = ret.args.esp)
        /\ Family(ret.args.seq_type) = "FSE"
               => /\ ret.val.signal.eq = "steady_state"
                  /\ ret.val.signal.decay_esp = 0
                  /\ ret.val.signal.blur = IF ret.args.etl > 1
                                           THEN ret.args.etl * ret.args.esp ELSE 0
                  /\ ret.args.etl <= 1 => ret.val = ImageNamed(ret.args, <<"S", "E">>)
        /\ Family(ret.args.seq_type) = "SE"
               => /\ ret.val.signal.eq = "steady_state"
                  /\ ret.val.signal.decay_esp = 0
                  /\ ret.val.signal.blur = 0
                  /\ ret.val = ImageNamed(ret.args, <<"S", "E">>)

\* C15 happens: a name containing both "EPI" and "FLAIR" was rendered by
\* inversion recovery.
C15_FlairBeforeEpi ==
    /\ ret.op = "calculate_image"
    /\ ret.exc = ""
    /\ ret.val # None
    /\ ret.args.seq_type = sEpiFlair
    /\ ret.val.signal.eq = "inversion_recovery"

\* The 'VObj' of a container parses: T1 and T2 convert, and so does the PD
\* field that is looked at ('Rho' if present, else 'PD' if present).
VObjParses(mat) ==
    /\ mat.readable
    /\ HasVObj(mat)
    /\ FieldReadable(GetVObj(mat), kT1)
    /\ FieldReadable(GetVObj(mat), kT2)
    /\ (kRho \in GetVObj(mat).names => FieldReadable(GetVObj(mat), kRho))
    /\ (kRho \notin GetVObj(mat).names /\ kPD \in GetVObj(mat).names
           => FieldReadable(GetVObj(mat), kPD))

\* The field of 'VObj' an array was read from.
FromField(a, mat, name) == a.origin = <<mat.id, kVObj \o <<".">> \o name>>

\* The array was read from a flat variable whose lower-cased key is in names.
FromFlatKey(a, mat, names) ==
    /\ a.origin[1] = mat.id
    /\ \E i \in 1..Len(mat.vars) : mat.vars[i].key = a.origin[2] /\ mat.vars[i].struct = NoVObj
    /\ Lower(a.origin[2]) \in names

\* Some flat variable's lower-cased key is in names.
HasFlatKey(mat, names) == \E i \in 1..Len(mat.vars) : Lower(mat.vars[i].key) \in names

\* C16: when 'VObj' parses, the volumes come from its fields, 'Rho' before
\* 'PD', and flat keys are ignored; when 'VObj' is absent or does not parse,
\* the volumes come from the flat keys matched without regard to case, and
\* the flat schema is found only if a T1 key and a T2 key both exist.
C16_VObjFirstThenFlat ==
    (ret.op = "load_mat_file" /\ FileOf(ret.fname).readable) =>
        /\ VObjParses(FileOf(ret.fname))
               => /\ ret.found
                  /\ FromField(t1_vol, FileOf(ret.fname), kT1)
                  /\ FromField(t2_vol, FileOf(ret.fname), kT2)
                  /\ kRho \in GetVObj(FileOf(ret.fname)).names
                         => FromField(pd_vol, FileOf(ret.fname), kRho)
                  /\ (kRho \notin GetVObj(FileOf(ret.fname)).names
                         /\ kPD \in GetVObj(FileOf(ret.fname)).names)
                         => FromField(pd_vol, FileOf(ret.fname), kPD)
        /\ ~VObjParses(FileOf(ret.fname))
               => /\ ret.found
                         => /\ HasFlatKey(FileOf(ret.fname), T1Aliases)
                            /\ HasFlatKey(FileOf(ret.fname), T2Aliases)
                            /\ FromFlatKey(t1_vol, FileOf(ret.fname), T1Aliases)
                            /\ FromFlatKey(t2_vol, FileOf(ret.fname), T2Aliases)
                            /\ HasFlatKey(FileOf(ret.fname), PDAliases)
                                   => FromFlatKey(pd_vol, FileOf(ret.fname), PDAliases)
                  /\ (~ret.found /\ ret.caught = "")
                         => ~(HasFlatKey(FileOf(ret.fname), T1Aliases)
                              /\ HasFlatKey(FileOf(ret.fname), T2Aliases))

\* C16 happens: a container with flat T1, T2, PD and a complete 'VObj' was
\* loaded from the struct, PD taken from 'Rho'.
C16_VObjOverFlatKeys ==
    /\ ret.op = "load_mat_file"
    /\ ret.fname = "vobj.mat"
    /\ ret.val = <<TRUE, "Loaded">>
    /\ FromField(t1_vol, FileVObj, kT1)
    /\ FromField(pd_vol, FileVObj, kRho)

\* The slab reads the indices lo..hi-1 along axis of its volume.
ReadsRange(slab, axis, lo, hi) == slab.axis = axis /\ slab.lo = lo /\ slab.hi = hi

\* The three slabs of an image read the same range along the same axis.
AllRead(img, axis, lo, hi) ==
    /\ ReadsRange(img.signal.t1_s, axis, lo, hi)
    /\ ReadsRange(img.signal.t2_s, axis, lo, hi)
    /\ ReadsRange(img.signal.pd_s, axis, lo, hi)

\* The axis a plane is cut along and the clamped index on it.
PlaneAxis(plane) == IF plane = "axial" THEN 2 ELSE IF plane = "sagittal" THEN 1 ELSE 0
Center(args) ==
    Max2(0, Min2(args.slice_idx, t1_vol.shape[PlaneAxis(args.view_plane) + 1] - 1))

\* C17: an axial render with thickness t >= 0 averages the slices
\* [max(0, c - h), min(N, c + h + 1)), h = floor(t / 2), a window that is not
\* empty, contains c and lies inside [0, N); a sagittal or coronal render
\* reads the one slice c whatever the thickness.
C17_AxialWindowAndSingleSlice ==
    (ret.op = "calculate_image" /\ ret.exc = "" /\ ret.val # None /\ ret.args.thickness >= 0
        /\ t1_vol.shape[PlaneAxis(ret.args.view_plane) + 1] >= 1) =>
        /\ ret.args.view_plane = "axial"
               => /\ AllRead(ret.val, 2,
                             Max2(0, Center(ret.args) - FloorDiv(ret.args.thickness, 2)),
                             Min2(t1_vol.shape[3],
                                  Center(ret.args) + FloorDiv(ret.args.thickness, 2) + 1))
                  /\ ret.val.signal.t1_s.lo < ret.val.signal.t1_s.hi
                  /\ ret.val.signal.t1_s.lo <= Center(ret.args)
                  /\ Center(ret.args) < ret.val.signal.t1_s.hi
                  /\ 0 <= ret.val.signal.t1_s.lo
                  /\ ret.val.signal.t1_s.hi <= t1_vol.shape[3]
                  /\ ret.val.signal.t1_s.mean
        /\ ret.args.view_plane # "axial"
               => /\ AllRead(ret.val, PlaneAxis(ret.args.view_plane),
                             Center(ret.args), Center(ret.args) + 1)
                  /\ ~ret.val.signal.t1_s.mean

\* C17 happens: a thick axial slice at index 0, its window cut at the
\* volume's first slice.
C17_ThickSliceAtEdge ==
    /\ ret.op = "calculate_image"
    /\ ret.exc = ""
    /\ ret.val # None
    /\ ret.args.view_plane = "axial"
    /\ ret.args.thickness = MaxThick
    /\ ret.args.slice_idx = 0
    /\ ret.val.signal.t1_s.lo = 0
    /\ ret.val.signal.t1_s.hi = FloorDiv(MaxThick, 2) + 1

\* The last window crop_or_pad applied to the columns of img kept every
\* column and added none.
ColumnsKept(img) ==
    \/ img.windows = <<>>
    \/ LET cols == img.windows[Len(img.windows)][2]
       IN  cols.op = "crop" /\ cols.a = 0 /\ cols.len = cols.b

\* C18: an axial render zooms rows and columns by the same factor
\* int(base_fov * matrix_size / fov) / source_width, also for a non-square
\* slab; with fov = base_fov the resampled width is matrix_size, crop_or_pad
\* keeps the columns as they are and the output is matrix_size x matrix_size;
\* a sagittal or coronal render zooms rows by
\* int(rows * (thickness + gap) * matrix_size / fov) / rows and columns by
\* int(base_fov * matrix_size / fov) / source_width.
C18_AxialIsotropicZoom ==
    (ret.op = "calculate_image" /\ ret.exc = "" /\ ret.val.zoom # <<>>) =>
        LET a == ret.args
            z == ret.val.zoom
            target_w == TruncDiv(base_fov * a.matrix_size, a.fov)
        IN  IF a.view_plane = "axial"
            THEN /\ z = <<target_w, z[4], target_w, z[4]>>
                 /\ a.fov = base_fov =>
                        /\ RoundHalfEven(z[4] * z[3], z[4]) = a.matrix_size
                        /\ ColumnsKept(ret.val)
                        /\ ret.val.shape = <<a.matrix_size, a.matrix_size>>
            ELSE /\ z[1] = TruncDiv(z[2] * (a.thickness + a.gap) * a.matrix_size, a.fov)
                 /\ z[3] = target_w

\* The planes resliced along the through-plane axis.
MprPlanes == {"sagittal", "coronal"}

\* The axes of plane p shows a resampled render made from the parameters the
\* window holds for p now.
ShowsConfigured(p) ==
    /\ win.axes[p].img # None
    /\ win.axes[p].img.zoom # <<>>
    /\ win.axes[p].args.thickness = win.view_params[p].thick
    /\ win.axes[p].args.fov = win.view_params[p].fov
    /\ win.axes[p].args.matrix_size =
           LoopMatrixSize(ItemText(ResItems, win.view_params[p].matrix_idx)).val

\* C19: a sagittal or coronal render the window shows was resampled with the
\* row extent D2 * (thickness + gap) of that plane's configured thickness and
\* gap, D2 being the volume's axial slice count, and with the column extent
\* base_fov.
C19_MprRowExtentUsesGap ==
    (win # None /\ win.aborted = "" /\ t1_vol # None) =>
        \A p \in MprPlanes :
            ShowsConfigured(p) =>
                /\ win.axes[p].img.zoom[2] = t1_vol.shape[3]
                /\ win.axes[p].img.zoom[1] =
                       TargetPixels(t1_vol.shape[3]
                                        * (win.view_params[p].thick + win.view_params[p].gap),
                                    win.axes[p].args.matrix_size, win.view_params[p].fov)
                /\ win.axes[p].img.zoom[3] =
                       TargetPixels(base_fov, win.axes[p].args.matrix_size,
                                    win.view_params[p].fov)

\* C20: after a completed update_image the model's current_image is the
\* image shown for the active plane, k_space is the transform of that image,
\* and the k-space axes shows it.
C20_CacheIsActiveView ==
    (win # None /\ win.aborted = "") =>
        /\ current_image = win.axes[win.active_view].img
        /\ current_image # None => k_space.of = current_image
        /\ win.ax_k = k_space

\* The sagittal view became active by a click and an edit re-rendered the
\* three planes: the cache holds the sagittal image, not the coronal one
\* rendered last in the loop.
C20_SagittalActiveAfterEdit ==
    /\ win # None
    /\ win.aborted = ""
    /\ win.active_view = "sagittal"
    /\ ret.op = "spin.setValue"
    /\ win.axes["coronal"].img # None
    /\ current_image = win.axes["sagittal"].img
    /\ current_image # win.axes["coronal"].img
    /\ win.ax_k.of = current_image

\* The last call was an export handler that wrote a file.
ExportWrote == win # None /\ ret.op \in {"handle_export_dicom", "handle_export_kspace"}
                 /\ ret.written # None

\* C21: the image handle_export_dicom writes is the image shown for the
\* active view, the spectrum handle_export_kspace writes is the k-space
\* shown, and after the export the cache still holds the displayed image.
C21_ExportIsDisplayedView ==
    ExportWrote =>
        /\ ret.op = "handle_export_dicom" => ret.written = win.axes[win.active_view].img
        /\ ret.op = "handle_export_kspace" => ret.written = win.ax_k
        /\ current_image = win.axes[win.active_view].img
        /\ k_space = win.ax_k

\* The world inside on_canvas_click(new_view) when load_params_to_ui has
\* called on_sequence_change: the old view's record is stored, new_view is
\* active, and the first renders of the switch are made.
MidSwitch(new_view) ==
    LoadSequence([world EXCEPT !.w.view_params[win.active_view] = get_current_ui_params(win),
                               !.w.active_view = new_view],
                 win.view_params[new_view], strict)

\* The arguments a render of plane made from the record p has, the slice
\* index left aside.
OwnArgs(p, plane) ==
    CallArgs(p, ItemText(SeqItems, p.seq_idx),
             LoopMatrixSize(ItemText(ResItems, p.matrix_idx)).val, 0, 0, plane)

\* The view_params after a click on view b and a click back on view a.
ThereAndBack(a, b) ==
    on_canvas_click(on_canvas_click(world, b, strict), a, strict)

\* C22: a click that switches from plane A to plane B stores the controls as
\* A's record, leaves B's record as it was, renders B during the switch from
\* B's own record, and a switch to B and back to A leaves both records as
\* they were before.
C22_SwitchKeepsRecords ==
    [][(win # None /\ win' # None /\ ret'.op = "on_canvas_click" /\ win'.aborted = ""
        /\ win'.events # win.events /\ win'.active_view # win.active_view)
       => /\ win'.view_params[win.active_view] = get_current_ui_params(win)
          /\ win'.view_params[win'.active_view] = win.view_params[win'.active_view]
          /\ [MidSwitch(win'.active_view).w.axes[win'.active_view].args
                  EXCEPT !.slice_idx = 0]
                = OwnArgs(win.view_params[win'.active_view], win'.active_view)
          /\ ThereAndBack(win.active_view, win'.active_view).exc = "" =>
                 ThereAndBack(win.active_view, win'.active_view).w.view_params
                     = win.view_params]_vars

\* The handlers of the scout canvas.
ScoutOps == {"on_scout_press", "on_scout_move", "on_scout_scroll", "on_scout_release"}

\* A scout event handled to its end while a plane other than axial is active.
ScoutStepOffAxial ==
    /\ win # None
    /\ win' # None
    /\ win'.events # win.events
    /\ ret'.op \in ScoutOps
    /\ win'.aborted = ""
    /\ win.active_view # "axial"

\* C23: while sagittal or coronal is active, a scout event (press, drag,
\* scroll, release) leaves every view's parameters, rotation angle included,
\* and every slice index as they were, and scan_angle equals the active
\* view's stored angle.
C23_ScoutActsOnAxialOnly ==
    [][ScoutStepOffAxial =>
          /\ win'.view_params = win.view_params
          /\ win'.slice_indices = win.slice_indices
          /\ win'.scan_angle = win'.view_params[win'.active_view].angle]_vars

\* C24: t1_vol, t2_vol and pd_vol are always present, so get_dimensions
\* returns the shape of t1_vol, get_max_slice the extent of the plane's axis,
\* and a returning calculate_image an image, never None.
C24_VolumesAlwaysPresent ==
    /\ t1_vol # None
    /\ t2_vol # None
    /\ pd_vol # None
    /\ ret.op = "get_dimensions" => ret.val = t1_vol.shape
    /\ (ret.op = "get_max_slice" /\ ret.exc = "") =>
           ret.val = t1_vol.shape[IF ret.plane = "coronal" THEN 1
                                  ELSE IF ret.plane = "sagittal" THEN 2 ELSE 3]
    /\ (ret.op = "calculate_image" /\ ret.exc = "") => ret.val # None

\* get_max_slice answered after a load that returned False: a container with
\* a T1 field only replaced t1_vol and left the phantom's t2_vol and pd_vol.
C24_MaxSliceAfterFailedLoad ==
    /\ ret.op = "get_max_slice"
    /\ ret.plane = "axial"
    /\ ret.val = 2
    /\ t1_vol.origin[1] = "vobj_partial.mat"
    /\ t2_vol.origin[1] = "phantom"
    /\ pd_vol.origin[1] = "phantom"

\* C25: after initialisation and any sequence of events the stored slice
\* index of every plane p is within 0 .. get_max_slice(p) - 1, and the index
\* passed to calculate_image for the plane's shown image is the stored one.
C25_SliceIndexInRange ==
    (win # None /\ win.aborted = "" /\ t1_vol # None) =>
        \A p \in Planes :
            /\ 0 <= win.slice_indices[p]
            /\ win.slice_indices[p] <= get_max_slice(t1_vol, p).val - 1
            /\ win.axes[p].img # None => win.axes[p].args.slice_idx = win.slice_indices[p]

====
